---------------------------- MODULE Spec2Model ----------------------------
(***************************************************************************)
(* A model of the optical-mark decoding tools of the repository:           *)
(*   mark_grid.py  grid edges, per-cell classification, export encoding    *)
(*   read.py       OMRReader: rotation search, corner resolution, output   *)
(*                 size of the perspective correction                      *)
(*   main.py       select_roi_custom, run_pipeline and the loop of main    *)
(* and of the applications casherqr/textual_app.py (QR table) and          *)
(* casherqr/cash_register.py (cash register).                              *)
(*                                                                         *)
(* Several specifications share the variables below; each one leaves the   *)
(* variables of the other parts at their idle values.                      *)
(*   SpecEnc      export_black_matrix_as_binary_bytes on a family of       *)
(*                matrices                                                 *)
(*   SpecEdges    generate_grid_edges on bounded sizes                     *)
(*   SpecGrid     compute_black_matrix followed by the export, on small    *)
(*                images and on the 320x80 sheet                           *)
(*   SpecCorners  OMRReader.find_marker_corners on bounded id lists        *)
(*   SpecPersp    OMRReader.correct_perspective on bounded quadrilaterals  *)
(*                and target sizes                                         *)
(*   Spec         run_pipeline, one step per stage                         *)
(*   SpecMain     main: the configuration GUI and run_pipeline in a loop   *)
(*   SpecQR       QRApp: the Add and Delete Selected buttons               *)
(*   SpecFlex     OMRReader.detect_aruco_markers_flexible, one step per    *)
(*                (dictionary, scale) combination                          *)
(*   SpecRoi      select_roi_custom under mouse events, keys and the       *)
(*                window being closed                                      *)
(*   SpecCart     CashRegisterApp: the cart, its table and the delete      *)
(*                button                                                   *)
(*   SpecSerial   CashRegisterApp: connect and disconnect, the reader      *)
(*                threads and update_data                                  *)
(***************************************************************************)
EXTENDS Integers, Sequences, FiniteSets, TLC

VARIABLES
    pc,            \* control position of the specification that is running
    black_matrix,  \* mark_grid: the rows x cols matrix of 0/1 (or None)
    export,        \* the export file and how the export call ended
    grid,          \* mark_grid: [width, height, cols, rows] handed to generate_grid_edges
    edges,         \* mark_grid: [x, y] the generated edge arrays (0-indexed functions)
    image,         \* mark_grid: the image handed to compute_black_matrix
    gcfg,          \* mark_grid: [thr, gray] black_ratio_threshold (in 1/ThreshDen) and gray_threshold
    ids,           \* read: the id list handed to find_marker_corners
    corners,       \* read: the corner quads handed to find_marker_corners
    marker_corners,\* read: the result of find_marker_corners (None on failure)
    config,        \* main: the configuration dictionary of the run
    det,           \* read: state of the rotation search
    run,           \* main: what the run has done so far
    mainloop,      \* main: the loop of main() around build_gui and run_pipeline
    output_size,   \* read: the output_size handed to correct_perspective
    corrected_size,\* read: (width, height) of the image correct_perspective returned
    qr_rows,       \* textual_app: QRApp.rows
    qr_table,      \* textual_app: the rows the DataTable shows
    qr_csv,        \* textual_app: the lines of the CSV file (None: no file)
    qr_last,       \* textual_app: the last button press and how it was handled
    scene,         \* read: what the detector finds in the image, per dictionary and scale
    flex,          \* read: state of the flexible search
    sel,           \* main: state of select_roi_custom
    cart,          \* cash_register: CashRegisterApp.cart
    selection,     \* cash_register: the selected rows of cart_tree
    cart_last,     \* cash_register: the last cart operation and what it started from
    serial_reader, \* cash_register: CashRegisterApp.serial_reader
    conns,         \* cash_register: the serial connections opened so far
    threads,       \* cash_register: position of the GUI thread and of each reader thread
    data_queue,    \* cash_register: CashRegisterApp.data_queue
    read_log,      \* cash_register: the lines readline returned, in order, with reader and connection
    handed         \* cash_register: the strings handed to add_to_cart, in order

perspVars == <<output_size, corrected_size>>
qrVars == <<qr_rows, qr_table, qr_csv, qr_last>>
flexVars == <<scene, flex>>
cartVars == <<cart, selection, cart_last>>
serialVars == <<serial_reader, conns, threads, data_queue, read_log, handed>>
restVars == <<flexVars, sel, cartVars, serialVars>>

\* the variables of the sheet reader and of the QR table application
omrVars == <<black_matrix, export, grid, edges, image, gcfg, ids, corners,
             marker_corners, config, det, run, mainloop, perspVars, qrVars>>

vars == <<pc, omrVars, restVars>>

\* Python's None, and a sequence-valued object (list, tuple, numpy array) that
\* is not None
None == [none |-> TRUE]
Arr(v) == [arr |-> v]
\* an int that is not None
Val(v) == [val |-> v]

\* ------------------------------------------------------------------ bounds
MaxEncRows == 8
MaxEncCols == 17
MaxEdgeW == 12
MaxEdgeH == 5
MaxEdgeCols == 6
MaxEdgeRows == 4
MaxMarkers == 5
MaxPixels == 4
MaxGridCols == 3
MaxGridRows == 2
MaxPipeRows == 9
MaxPipeCols == 2
MaxId == 4
MaxQuadW == 8
MaxQuadH == 3
MaxTargetW == 12
MaxGuis == 2
MaxQrRows == 2
MaxEvents == 3
MaxCart == 3
MaxConnects == 2
MaxLines == 2

\* ------------------------------------------------------- program constants
ByteMsb == 7
FormatWidth == 8
GroupSize == 8

\* ---------------------------------------------------------------- helpers
RECURSIVE Pow2(_)
Pow2(n) == IF n <= 0 THEN 1 ELSE 2 * Pow2(n - 1)

\* a | b on non-negative integers
RECURSIVE BitOr(_, _)
BitOr(a, b) ==
    IF a = 0 THEN b
    ELSE IF b = 0 THEN a
    ELSE (IF a % 2 = 1 \/ b % 2 = 1 THEN 1 ELSE 0) + 2 * BitOr(a \div 2, b \div 2)

\* ------------------------------------- export_black_matrix_as_binary_bytes
\* A matrix is [rows, cols, at] with at[r][c] in {0,1}, r in 0..rows-1, c in 0..cols-1.
BitPosMutE(r) == 8 - r
\* bit_pos = 7 - r
BitPos(r) == ByteMsb - r

\* 1 << bit_pos raises ValueError (negative shift count) when bit_pos < 0; it is
\* evaluated only for the cells that are set.
ColumnRaises(bm, c) ==
    \E r \in 0..(bm.rows - 1) : bm.at[r][c] # 0 /\ BitPos(r) < 0

\* value after the rows 0..r-1 have been or-ed in
RECURSIVE PackUpTo(_, _, _)
PackUpTo(bm, c, r) ==
    IF r = 0 THEN 0
    ELSE LET v == PackUpTo(bm, c, r - 1)
         IN  IF bm.at[r - 1][c] # 0 THEN BitOr(v, Pow2(BitPos(r - 1))) ELSE v

PackColumn(bm, c) == PackUpTo(bm, c, bm.rows)

\* the binary digits of value, most significant first, no padding
RECURSIVE BinDigits(_)
BinDigits(value) ==
    IF value < 2 THEN (IF value = 1 THEN "1" ELSE "0")
    ELSE BinDigits(value \div 2) \o (IF value % 2 = 1 THEN "1" ELSE "0")

RECURSIVE ZeroPad(_, _)
ZeroPad(s, width) == IF Len(s) >= width THEN s ELSE ZeroPad("0" \o s, width)

\* f"{value:08b}"
Format08b(value) == ZeroPad(BinDigits(value), FormatWidth)

\* f"0b{value:08b},"
Token(value) == "0b" \o Format08b(value) \o ","

\* lines, one token per column
ColumnLines(bm) == [i \in 1..bm.cols |-> Token(PackColumn(bm, i - 1))]

SepNeededMutE(i, n) == i + GroupSize <= n
\* if i + 8 < len(lines)
SepNeeded(i, n) == i + GroupSize < n

Slice(s, from, to) ==
    \* s[from:to] with 0-based from, exclusive to, clipped like a Python slice
    LET hi == IF to > Len(s) THEN Len(s) ELSE to
    IN  IF from >= hi THEN <<>> ELSE [k \in 1..(hi - from) |-> s[from + k]]

\* for i in range(0, len(lines), 8): extend lines[i:i+8]; separator if more follow
RECURSIVE GroupFrom(_, _)
GroupFrom(lines, i) ==
    IF i >= Len(lines) THEN <<>>
    ELSE Slice(lines, i, i + GroupSize)
         \o (IF SepNeeded(i, Len(lines)) THEN <<",">> ELSE <<>>)
         \o GroupFrom(lines, i + GroupSize)

GroupedLines(lines) == GroupFrom(lines, 0)

NoExport == [status |-> "none", written |-> FALSE, lines |-> <<>>]

\* The whole call: packing (may raise ValueError), grouping, open(path, "w")
\* (raises OSError when the path is not writable) and the writes.
ExportResult(bm, writable) ==
    IF \E c \in 0..(bm.cols - 1) : ColumnRaises(bm, c)
        THEN [status |-> "ValueError", written |-> FALSE, lines |-> <<>>]
    ELSE IF ~writable
        THEN [status |-> "OSError", written |-> FALSE, lines |-> <<>>]
    ELSE [status |-> "ok", written |-> TRUE, lines |-> GroupedLines(ColumnLines(bm))]

\* ------------------------------------------------------ generate_grid_edges
LinspaceMutE(stop, num) ==
    IF num = 1 THEN [i \in 0..0 |-> 0]
    ELSE [i \in 0..(num - 1) |-> i * ((stop + num - 2) \div (num - 1))]
\* np.linspace(0, stop, num=num, dtype=np.int32): the evenly spaced reals
\* i * stop / (num - 1), floored to integers; a single sample is the start.
\* (numpy forms i * (stop / (num - 1)) in double precision; for the sizes of
\* this model the floor of that product is the exact floor.)
Linspace(stop, num) ==
    IF num = 1 THEN [i \in 0..0 |-> 0]
    ELSE [i \in 0..(num - 1) |-> (i * stop) \div (num - 1)]

\* e[0], e[-1] = 0, last  (two assignments, in this order)
PinEnds(e, num, last) == [[e EXCEPT ![0] = 0] EXCEPT ![num - 1] = last]

GridEdgesX(width, cols) == PinEnds(Linspace(width, cols + 1), cols + 1, width)
GridEdgesY(height, rows) == PinEnds(Linspace(height, rows + 1), rows + 1, height)

generate_grid_edges(width, height, cols, rows) ==
    [x |-> GridEdgesX(width, cols), y |-> GridEdgesY(height, rows)]

\* ----------------------------------------------------- compute_black_matrix
\* An image is [h, w, px]: px[y][x] is a BGR triple, y in 0..h-1, x in 0..w-1.
\* A threshold ratio is [num, den], the float num/den.

\* cv2.cvtColor(image, cv2.COLOR_BGR2GRAY) on one 8-bit pixel: the fixed-point
\* weighted sum of OpenCV, rounded to nearest.
Gray(bgr) == (bgr[1] * 3735 + bgr[2] * 19235 + bgr[3] * 9798 + 16384) \div 32768

Max2(a, b) == IF a >= b THEN a ELSE b
Min2(a, b) == IF a <= b THEN a ELSE b

\* the pixel coordinates <<y, x>> of roi = grayscale[y1:y2 + 1, x1:x2 + 1] for
\* cell (r, c), after the clamping of x1, y1, x2, y2
CellBlockMutE(e, r, c, width, height) ==
    LET y1 == Max2(0, e.y[r])
        y2 == Min2(height - 1, e.y[r + 1] - 1)
        x1 == Max2(0, e.x[c])
        x2 == Min2(width - 1, e.x[c + 1])
    IN  {<<y, x>> : y \in y1..y2, x \in x1..x2}
CellBlock(e, r, c, width, height) ==
    LET y1 == Max2(0, e.y[r])
        y2 == Min2(height - 1, e.y[r + 1] - 1)
        x1 == Max2(0, e.x[c])
        x2 == Min2(width - 1, e.x[c + 1] - 1)
    IN  {<<y, x>> : y \in y1..y2, x \in x1..x2}

GrayAt(img, p) == Gray(img.px[p[1]][p[2]])

RECURSIVE SumGray(_, _)
SumGray(img, block) ==
    IF block = {} THEN 0
    ELSE LET p == CHOOSE q \in block : TRUE
         IN  GrayAt(img, p) + SumGray(img, block \ {p})

\* between-class variance of the split "gray <= t" / "gray > t", as the pair
\* <<numerator, denominator>> (both classes non-empty)
OtsuSigma(img, block, t) ==
    LET lo == {p \in block : GrayAt(img, p) <= t}
        hi == block \ lo
        n1 == Cardinality(lo)
        n2 == Cardinality(hi)
        d  == SumGray(img, lo) * n2 - SumGray(img, hi) * n1
    IN  <<d * d, n1 * n2>>

SigmaGreater(a, b) == a[1] * b[2] > b[1] * a[2]

\* The threshold cv2.threshold(roi, 0, 255, THRESH_BINARY + THRESH_OTSU) picks:
\* the least level whose split has the greatest between-class variance; 0 when
\* no level splits the block into two non-empty classes.
OtsuThreshold(img, block) ==
    LET levels == {GrayAt(img, p) : p \in block}
        cands  == {t \in levels : \E u \in levels : u > t}
        best   == {t \in cands : \A u \in cands :
                      ~SigmaGreater(OtsuSigma(img, block, u), OtsuSigma(img, block, t))}
    IN  IF cands = {} THEN 0
        ELSE CHOOSE t \in best : \A u \in best : t <= u

\* fixed threshold if provided, otherwise local Otsu
CellThreshold(img, block, gray_threshold) ==
    IF gray_threshold # None THEN gray_threshold.val
    ELSE OtsuThreshold(img, block)

\* cv2.countNonZero(binary) with binary = 255 where gray > thresh, else 0
CountNonZero(img, block, t) == Cardinality({p \in block : GrayAt(img, p) > t})

BlackPixelsMutE(img, block, gray_threshold) ==
    CountNonZero(img, block, CellThreshold(img, block, gray_threshold))
\* black_pixels = total_pixels - countNonZero(binary)
BlackPixels(img, block, gray_threshold) ==
    Cardinality(block) - CountNonZero(img, block, CellThreshold(img, block, gray_threshold))

IsFilledMutE(black_pixels, total_pixels, thr) ==
    black_pixels * thr.den > thr.num * total_pixels
\* black_ratio >= black_ratio_threshold, with black_ratio = black_pixels / total_pixels
IsFilled(black_pixels, total_pixels, thr) ==
    black_pixels * thr.den >= thr.num * total_pixels

CellBitMutE(img, block, thr, gray_threshold) ==
    IF IsFilled(BlackPixels(img, block, gray_threshold), Cardinality(block), thr)
    THEN 1 ELSE 0
\* if roi.size == 0: continue (the entry keeps the 0 of np.zeros); otherwise
\* black_matrix[r, c] = 1 if black_ratio >= black_ratio_threshold else 0
CellBit(img, block, thr, gray_threshold) ==
    IF block = {} THEN 0
    ELSE IF IsFilled(BlackPixels(img, block, gray_threshold), Cardinality(block), thr)
         THEN 1 ELSE 0

Raised(what) == [raised |-> what]

\* ---------------------------------------- analyze_and_highlight_black_cells
\* the colours of the outlines: green for a filled cell, red for the others
OutlineFilled == <<0, 255, 0>>
OutlineOther == <<0, 0, 255>>

\* the pixels of a cell block that cv2.rectangle(.., (x1, y1), (x2, y2), ..)
\* paints at least: those on the rim of the block
Rim(block) ==
    {p \in block : \E q \in {<<p[1] - 1, p[2]>>, <<p[1] + 1, p[2]>>,
                             <<p[1], p[2] - 1>>, <<p[1], p[2] + 1>>} : q \notin block}

\* the outlines drawn over img, each cell classified on the grayscale taken
\* before any drawing
Outlined(img, cols, rows, thr, gray_threshold) ==
    LET e == generate_grid_edges(img.w, img.h, cols, rows)
        cells == (0..(rows - 1)) \X (0..(cols - 1))
        blk(rc) == CellBlock(e, rc[1], rc[2], img.w, img.h)
        colour(rc) == IF CellBit(img, blk(rc), thr, gray_threshold) = 1
                          THEN OutlineFilled ELSE OutlineOther
    IN  [h |-> img.h, w |-> img.w,
         px |-> [y \in 0..(img.h - 1) |-> [x \in 0..(img.w - 1) |->
                   IF \E rc \in cells : <<y, x>> \in Rim(blk(rc))
                       THEN colour(CHOOSE rc \in cells : <<y, x>> \in Rim(blk(rc)))
                       ELSE img.px[y][x]]]]

ImageAfterHighlightMutE(img, cols, rows, thr, gray_threshold) ==
    Outlined(img, cols, rows, thr, gray_threshold)
\* The array the caller passed in, as it is after the call: every
\* cv2.rectangle goes to marked = image.copy() and the classification reads
\* grayscale, a new array, so the input is as it was.
ImageAfterHighlight(img, cols, rows, thr, gray_threshold) == img

\* The whole call.  cv2.cvtColor raises cv2.error on an empty image.
compute_black_matrix(img, cols, rows, thr, gray_threshold) ==
    IF img.w = 0 \/ img.h = 0 THEN Raised("cv2.error")
    ELSE LET e == generate_grid_edges(img.w, img.h, cols, rows)
         IN  [rows |-> rows, cols |-> cols,
              at |-> [r \in 0..(rows - 1) |-> [c \in 0..(cols - 1) |->
                        CellBit(img, CellBlock(e, r, c, img.w, img.h), thr, gray_threshold)]]]

\* ------------------------------------------- OMRReader.find_marker_corners
CanonicalIds == {0, 1, 2, 3}

\* np.mean(marker_corners, axis=0) of a quad of four points.  The quads of this
\* model have coordinate sums divisible by 4, so the mean is an integer point.
RECURSIVE SumCoord(_, _, _)
SumCoord(quad, k, n) == IF n = 0 THEN 0 ELSE quad[n][k] + SumCoord(quad, k, n - 1)
CentroidMutE(quad) == quad[1]
Centroid(quad) == <<SumCoord(quad, 1, Len(quad)) \div Len(quad),
                    SumCoord(quad, 2, Len(quad)) \div Len(quad)>>

TooFewIdsMutE(idlist) == idlist = None \/ Len(idlist.arr) <= 4
\* if ids is None or len(ids) < 4
TooFewIds(idlist) == idlist = None \/ Len(idlist.arr) < 4

\* marker_positions after the first n entries of ids: a dict, modelled as a
\* function on the keys present; a later entry with the same id replaces an
\* earlier one.
RECURSIVE MarkerPositions(_, _, _)
MarkerPositions(cs, idlist, n) ==
    IF n = 0 THEN [k \in {} |-> <<0, 0>>]
    ELSE LET d == MarkerPositions(cs, idlist, n - 1)
             id == idlist[n]
         IN  IF id \in CanonicalIds
                 THEN [k \in (DOMAIN d) \cup {id} |->
                          IF k = id THEN Centroid(cs[n]) ELSE d[k]]
                 ELSE d

find_marker_corners(cs, idlist) ==
    IF TooFewIds(idlist) THEN None
    ELSE LET d == MarkerPositions(cs.arr, idlist.arr, Len(idlist.arr))
         IN  IF Cardinality(DOMAIN d) # 4 THEN None
             ELSE Arr(<<d[0], d[1], d[2], d[3]>>)

\* ------------------------------------------ OMRReader.detect_aruco_markers
Angles == <<0, 90, 180, 270>>

\* The point of the rotated image that shows what the input image shows at p:
\* cv2.getRotationMatrix2D(center, angle, 1.0) applied by cv2.warpAffine, for
\* the four right angles (positive angles turn counter-clockwise).
RotatePoint(p, center, angle) ==
    LET dx == p[1] - center[1]
        dy == p[2] - center[2]
    IN  CASE angle = 0   -> p
          [] angle = 90  -> <<center[1] + dy, center[2] - dx>>
          [] angle = 180 -> <<center[1] - dx, center[2] - dy>>
          [] angle = 270 -> <<center[1] - dy, center[2] + dx>>

FoundEnoughMutE(n) == n > 4
\* if len(ids) >= 4: break
FoundEnough(n) == n >= 4

NumFound(idlist) == IF idlist = None THEN 0 ELSE Len(idlist.arr)

IsBetterMutE(idlist, max_detected) == idlist # None /\ Len(idlist.arr) >= max_detected
\* if ids is not None and len(ids) > max_detected
IsBetter(idlist, max_detected) == idlist # None /\ Len(idlist.arr) > max_detected

\* best_corners = None; best_ids = None; max_detected = 0, before the loop
DetStart == [i |-> 1, best_corners |-> None, best_ids |-> None,
             max_detected |-> 0, calls |-> <<>>, done |-> FALSE]

\* One iteration of `for angle in [0, 90, 180, 270]`: detectMarkers on the
\* rotated image returned (cs, idlist).  calls is the log of the detector's
\* invocations (the angle and how many markers it returned).
DetIterate(d, cs, idlist) ==
    LET better == IsBetter(idlist, d.max_detected)
        brk    == better /\ FoundEnough(Len(idlist.arr))
    IN  [i |-> d.i + 1,
         best_corners |-> IF better THEN cs ELSE d.best_corners,
         best_ids |-> IF better THEN idlist ELSE d.best_ids,
         max_detected |-> IF better THEN Len(idlist.arr) ELSE d.max_detected,
         calls |-> Append(d.calls, [angle |-> Angles[d.i], n |-> NumFound(idlist)]),
         done |-> brk \/ d.i = Len(Angles)]

\* --------------------------------------------- OMRReader.correct_perspective
ISqrt(n) == CHOOSE k \in 0..n : k * k <= n /\ n < (k + 1) * (k + 1)

\* np.linalg.norm(q - p); the quadrilaterals of this model have sides of
\* integer length
Norm(p, q) ==
    ISqrt((q[1] - p[1]) * (q[1] - p[1]) + (q[2] - p[2]) * (q[2] - p[2]))

\* Python's round(num / den) for num >= 0, den > 0: to nearest, ties to even
PyRound(num, den) ==
    LET q == num \div den
        r == num % den
    IN  IF 2 * r < den THEN q
        ELSE IF 2 * r > den THEN q + 1
        ELSE IF q % 2 = 0 THEN q ELSE q + 1

AutoOutputSizeMutE(c) ==
    <<PyRound(Norm(c[1], c[2]) + Norm(c[4], c[3]), 2),
      PyRound(Norm(c[1], c[4]) + Norm(c[2], c[3]), 2)>>
\* (out_w, out_h) for output_size = None
AutoOutputSize(c) ==
    LET top_width    == Norm(c[1], c[2])
        bottom_width == Norm(c[4], c[3])
        left_height  == Norm(c[1], c[4])
        right_height == Norm(c[2], c[3])
    IN  <<Max2(1, PyRound(top_width + bottom_width, 2)),
          Max2(1, PyRound(left_height + right_height, 2))>>

\* 1e-6 is 1 / EpsilonDen
EpsilonDen == 1000000

\* source_ratio = estimated_width / max(estimated_height, 1e-6), as the exact
\* ratio [num, den]; the estimates are the halves of the side-length sums
SourceRatio(c) ==
    LET width2  == Norm(c[1], c[2]) + Norm(c[4], c[3])
        height2 == Norm(c[1], c[4]) + Norm(c[2], c[3])
    IN  IF height2 = 0 THEN [num |-> width2 * EpsilonDen, den |-> 2]
        ELSE [num |-> width2, den |-> height2]

ExplicitOutputSizeMutE(c, target) ==
    Arr(<<Max2(1, target[1]), Max2(1, target[2])>>)
\* (out_w, out_h) for output_size = (target_w, target_h): the width is kept,
\* the height follows the source ratio; out_w / source_ratio raises
\* ZeroDivisionError when the estimated width is 0
ExplicitOutputSize(c, target) ==
    LET source_ratio == SourceRatio(c)
        out_w == Max2(1, target[1])
    IN  IF source_ratio.num = 0 THEN Raised("ZeroDivisionError")
        ELSE Arr(<<out_w, Max2(1, PyRound(out_w * source_ratio.den, source_ratio.num))>>)

\* the size of the image correct_perspective returns
OutputSize(c, size) ==
    IF size = None THEN Arr(AutoOutputSize(c)) ELSE ExplicitOutputSize(c, size.arr)

\* -------------------------------------------------------- textual_app.QRApp
\* A text is a sequence of characters.  A row of self.rows is
\* [timestamp, data]; a row of the DataTable is <<timestamp, data>>; the CSV
\* file is None (no file) or Arr(lines), a line being a sequence of cells.

\* the three header cells writerow writes (the Japanese words for date-time,
\* data, remarks) and the fixed remark of every data line (QR code scan)
CsvHeader == << <<"date-time">>, <<"data">>, <<"remarks">> >>
CsvRemark == <<"QR", "code", "scan">>

CsvLine(r) == <<r.timestamp, r.data, CsvRemark>>

\* what a successful _write_csv leaves in the file: the header, then one line
\* per row of self.rows, in list order
CsvLines(rws) == <<CsvHeader>> \o [i \in 1..Len(rws) |-> CsvLine(rws[i])]

\* str.strip() with whitespace being the blank
RECURSIVE LStrip(_)
LStrip(s) == IF s # <<>> /\ Head(s) = " " THEN LStrip(Tail(s)) ELSE s
RECURSIVE RStrip(_)
RStrip(s) ==
    IF s # <<>> /\ s[Len(s)] = " " THEN RStrip(SubSeq(s, 1, Len(s) - 1)) ELSE s
Strip(s) == RStrip(LStrip(s))

\* How a call of _write_csv can go: open() raises (the file keeps its old
\* content), a write raises after open() truncated the file and n lines went
\* out, or every line is written.  The exception is caught inside _write_csv.
WriteOutcomes(rws) ==
    {[kind |-> "ok", n |-> Len(rws) + 1], [kind |-> "open", n |-> 0]}
        \cup {[kind |-> "write", n |-> k] : k \in 0..Len(rws)}

WriteCsv(file, rws, outcome) ==
    CASE outcome.kind = "ok"    -> Arr(CsvLines(rws))
      [] outcome.kind = "open"  -> file
      [] outcome.kind = "write" -> Arr(SubSeq(CsvLines(rws), 1, outcome.n))

\* on_mount: the rows read back from the CSV file, skipping the lines whose
\* timestamp and data are both empty
LoadRows(file) ==
    IF file = None \/ file.arr = <<>> THEN <<>>
    ELSE LET body == Tail(file.arr)
             kept == SelectSeq(body, LAMBDA l : l[1] # <<>> \/ l[2] # <<>>)
         IN  [i \in 1..Len(kept) |-> [timestamp |-> kept[i][1], data |-> kept[i][2]]]

TableOf(rws) == [i \in 1..Len(rws) |-> <<rws[i].timestamp, rws[i].data>>]

\* del lst[i] / the row at index i leaving the table (0-based i)
RemoveAt(lst, i) == SubSeq(lst, 1, i) \o SubSeq(lst, i + 2, Len(lst))

\* if cursor is None or cursor < 0 or cursor >= len(self.rows)
NoCursorRow(cursor, rws) ==
    cursor = None \/ cursor.val < 0 \/ cursor.val >= Len(rws)

\* ------------------------------------------------------------- run_pipeline
\* start:stop of a Python slice over n items, as the set of indices it keeps
PySliceIdx(start, stop, n) ==
    LET norm(k) == IF k < 0 THEN Max2(0, k + n) ELSE Min2(k, n)
    IN  {k \in 0..(n - 1) : norm(start) <= k /\ k < norm(stop)}

\* corrected[y:y + h_roi, x:x + w_roi]
Crop(img, x, y, w_roi, h_roi) ==
    LET ys == PySliceIdx(y, y + h_roi, img.h)
        xs == PySliceIdx(x, x + w_roi, img.w)
        y0 == IF ys = {} THEN 0 ELSE CHOOSE k \in ys : \A j \in ys : k <= j
        x0 == IF xs = {} THEN 0 ELSE CHOOSE k \in xs : \A j \in xs : k <= j
    IN  [h |-> Cardinality(ys), w |-> Cardinality(xs),
         px |-> [yy \in 0..(Cardinality(ys) - 1) |->
                   [xx \in 0..(Cardinality(xs) - 1) |-> img.px[y0 + yy][x0 + xx]]]]

IsEmptyImage(img) == img.w = 0 \/ img.h = 0

DetectFailedMutE(idlist) == idlist = None
\* if ids is None or len(ids) < 4
DetectFailed(idlist) == idlist = None \/ Len(idlist.arr) < 4

NoRoiMutE(roi) == roi[3] = 0 /\ roi[4] = 0
\* if w_roi == 0 or h_roi == 0
NoRoi(roi) == roi[3] = 0 \/ roi[4] = 0

RunStart == [trace |-> <<>>, result |-> None, src_ok |-> FALSE, corrected |-> None,
             roi |-> None, crop_written |-> FALSE, marked |-> FALSE,
             marked_written |-> FALSE]

Returned(r, code) == [r EXCEPT !.result = Val(code)]
Escaped(r, what) == [r EXCEPT !.result = Raised(what)]
Entered(r, stage) == [r EXCEPT !.trace = Append(@, stage)]

\* ------------------------------------------------------------- idle values
IdleEnc == black_matrix = None /\ export = NoExport
IdleEdges == grid = None /\ edges = None
IdleGrid == image = None /\ gcfg = None
IdleCorners == ids = None /\ corners = None /\ marker_corners = None
IdlePipe == config = None /\ det = None /\ run = None
IdleIo == black_matrix = None /\ export = NoExport
IdleMain == mainloop = None
IdlePersp == output_size = None /\ corrected_size = None
IdleQr == qr_rows = None /\ qr_table = None /\ qr_csv = None /\ qr_last = None
IdleFlex == scene = None /\ flex = None
IdleSel == sel = None
IdleCart == cart = None /\ selection = None /\ cart_last = None
IdleSerial ==
    /\ serial_reader = None /\ conns = None /\ threads = None
    /\ data_queue = None /\ read_log = None /\ handed = None
IdleRest == IdleFlex /\ IdleSel /\ IdleCart /\ IdleSerial

\* ------------------------------------------------------------------ SpecEnc
\* bit r of column c of the family member (rows, cols, p): column c holds the
\* pattern (p + c) mod 2^rows, so column 0 ranges over every pattern.
FamilyBit(rows, p, r, c) == ((p + c) % Pow2(rows)) \div Pow2(r) % 2

FamilyMatrix(rows, cols, p) ==
    [rows |-> rows, cols |-> cols,
     at |-> [r \in 0..(rows - 1) |->
                [c \in 0..(cols - 1) |-> FamilyBit(rows, p, r, c)]]]

InitEnc ==
    /\ pc = "enc"
    /\ \E rows \in 1..MaxEncRows, cols \in 1..MaxEncCols :
         \E p \in 0..(Pow2(rows) - 1) :
            black_matrix = FamilyMatrix(rows, cols, p)
    /\ export = NoExport
    /\ IdleEdges /\ IdleGrid /\ IdleCorners /\ IdlePipe
    /\ IdleMain /\ IdlePersp /\ IdleQr
    /\ IdleRest

EncExport ==
    /\ pc = "enc"
    /\ export' = ExportResult(black_matrix, TRUE)
    /\ pc' = "enc_done"
    /\ UNCHANGED <<black_matrix, grid, edges, image, gcfg, ids, corners,
                   marker_corners, config, det, run,
                   mainloop, perspVars, qrVars, restVars>>

NextEnc == EncExport

SpecEnc == InitEnc /\ [][NextEnc]_vars


\* ---------------------------------------------------------------- SpecEdges
InitEdges ==
    /\ pc = "edges"
    /\ \E width \in 0..MaxEdgeW, height \in 0..MaxEdgeH,
          cols \in 1..MaxEdgeCols, rows \in 1..MaxEdgeRows :
            grid = [width |-> width, height |-> height, cols |-> cols, rows |-> rows]
    /\ edges = None
    /\ IdleEnc /\ IdleGrid /\ IdleCorners /\ IdlePipe
    /\ IdleMain /\ IdlePersp /\ IdleQr
    /\ IdleRest

EdgesGenerate ==
    /\ pc = "edges"
    /\ edges' = generate_grid_edges(grid.width, grid.height, grid.cols, grid.rows)
    /\ pc' = "edges_done"
    /\ UNCHANGED <<black_matrix, export, grid, image, gcfg, ids, corners,
                   marker_corners, config, det, run,
                   mainloop, perspVars, qrVars, restVars>>

NextEdges == EdgesGenerate

SpecEdges == InitEdges /\ [][NextEdges]_vars

\* -------------------------------------------------------------- SpecCorners
RECURSIVE SeqsUpTo(_, _)
SeqsUpTo(S, n) ==
    IF n = 0 THEN {<<>>}
    ELSE LET shorter == SeqsUpTo(S, n - 1)
         IN  shorter \cup {Append(q, x) : q \in shorter, x \in S}

\* the quad of a marker of side 2 centred on point c
QuadAround(c) == << <<c[1] - 1, c[2] - 1>>, <<c[1] + 1, c[2] - 1>>,
                    <<c[1] + 1, c[2] + 1>>, <<c[1] - 1, c[2] + 1>> >>

\* the i-th detected marker sits at a place of its own
PlaceOf(i, id) == <<10 * i, 10 * id + i>>

QuadsFor(idlist) == [i \in 1..Len(idlist) |-> QuadAround(PlaceOf(i, idlist[i]))]

InitCorners ==
    /\ pc = "corners"
    /\ \/ ids = None /\ corners = Arr(<<>>)
       \/ \E l \in SeqsUpTo(0..MaxId, MaxMarkers) \ {<<>>} :
             ids = Arr(l) /\ corners = Arr(QuadsFor(l))
    /\ marker_corners = None
    /\ IdleEnc /\ IdleEdges /\ IdleGrid /\ IdlePipe
    /\ IdleMain /\ IdlePersp /\ IdleQr
    /\ IdleRest

CornersFind ==
    /\ pc = "corners"
    /\ marker_corners' = find_marker_corners(corners, ids)
    /\ pc' = "corners_done"
    /\ UNCHANGED <<black_matrix, export, grid, edges, image, gcfg, ids, corners,
                   config, det, run,
                   mainloop, perspVars, qrVars, restVars>>

NextCorners == CornersFind

SpecCorners == InitCorners /\ [][NextCorners]_vars

\* ---------------------------------------------------------------- SpecPersp
\* the axis-aligned rectangle of size w x h with its top-left corner at the
\* origin, as (TL, TR, BR, BL)
RectQuad(w, h) == << <<0, 0>>, <<w, 0>>, <<w, h>>, <<0, h>> >>

\* quadrilaterals with slanted sides of length 5: a parallelogram, two
\* trapezoids whose top and bottom widths differ, and one whose estimates are
\* not whole numbers (widths 8 and 5, heights 5 and 4)
SlantedQuads == { << <<0, 0>>, <<8, 0>>, <<11, 4>>, <<3, 4>> >>,
                  << <<0, 0>>, <<8, 0>>, <<5, 4>>, <<3, 4>> >>,
                  << <<3, 0>>, <<5, 0>>, <<8, 4>>, <<0, 4>> >>,
                  << <<0, 0>>, <<8, 0>>, <<8, 4>>, <<3, 4>> >> }

PerspQuads ==
    {RectQuad(w, h) : w \in 0..MaxQuadW, h \in 0..MaxQuadH} \cup SlantedQuads

TargetSizes ==
    {None} \cup {Arr(<<tw, th>>) : tw \in 0..MaxTargetW, th \in {1, 5}}

InitPersp ==
    /\ pc = "persp"
    /\ marker_corners \in {Arr(q) : q \in PerspQuads}
    /\ output_size \in TargetSizes
    /\ corrected_size = None
    /\ ids = None /\ corners = None
    /\ IdleEnc /\ IdleEdges /\ IdleGrid /\ IdlePipe /\ IdleMain /\ IdleQr
    /\ IdleRest

PerspCorrect ==
    /\ pc = "persp"
    /\ corrected_size' = OutputSize(marker_corners.arr, output_size)
    /\ pc' = "persp_done"
    /\ UNCHANGED <<black_matrix, export, grid, edges, image, gcfg, ids, corners,
                   marker_corners, config, det, run, mainloop, output_size, qrVars, restVars>>

NextPersp == PerspCorrect

SpecPersp == InitPersp /\ [][NextPersp]_vars

\* ------------------------------------------------------------------- SpecQR
InputValues == {<<>>, <<" ">>, <<"a">>, <<" ", "b">>, <<"a", " ">>}
Timestamps == {<<"12:00:00">>, <<"12:00:01">>}
StoredRow == [timestamp |-> <<"11:59:59">>, data |-> <<"z">>]
BlankLine == << <<>>, <<>>, CsvRemark >>

\* the CSV file the app finds when it starts: none, one the app wrote
\* earlier, or one that also holds a blank line
InitialFiles ==
    {None, Arr(CsvLines(<<>>)), Arr(CsvLines(<<StoredRow>>)),
     Arr(<<CsvHeader, BlankLine, CsvLine(StoredRow)>>)}

Cursors(n) == {None} \cup {Val(k) : k \in (-1)..n}

\* the state after on_mount
InitQR ==
    /\ pc = "qr"
    /\ qr_csv \in InitialFiles
    /\ qr_rows = LoadRows(qr_csv)
    /\ qr_table = TableOf(LoadRows(qr_csv))
    /\ qr_last = None
    /\ IdleEnc /\ IdleEdges /\ IdleGrid /\ IdleCorners /\ IdlePipe
    /\ IdleMain /\ IdlePersp
    /\ IdleRest

\* on_button_pressed, btn_id == "add_btn"
QRAdd ==
    /\ pc = "qr"
    /\ \E value \in InputValues, timestamp \in Timestamps :
          LET text == Strip(value)
              rws  == Append(qr_rows, [timestamp |-> timestamp, data |-> text])
          IN  IF text = <<>>
                  THEN /\ qr_last' = [op |-> "add", accepted |-> FALSE, notified |-> TRUE]
                       /\ UNCHANGED <<qr_rows, qr_table, qr_csv>>
                  ELSE /\ Len(qr_rows) < MaxQrRows /\ Len(qr_table) < MaxQrRows
                       /\ \E w \in WriteOutcomes(rws) :
                             /\ qr_rows' = rws
                             /\ qr_table' = Append(qr_table, <<timestamp, text>>)
                             /\ qr_csv' = WriteCsv(qr_csv, rws, w)
                             /\ qr_last' = [op |-> "add", accepted |-> TRUE,
                                            notified |-> w.kind # "ok"]
    /\ UNCHANGED <<pc, black_matrix, export, grid, edges, image, gcfg, ids, corners,
                   marker_corners, config, det, run, mainloop, perspVars, restVars>>

\* on_button_pressed, btn_id == "del_btn".  self.table.remove_row(cursor) is a
\* call into the Textual library with the row index as its argument: it
\* either removes the row at that index or raises (the library identifies
\* rows by key); the handler catches the exception and notifies.
QRDelete ==
    /\ pc = "qr"
    /\ \E cursor \in Cursors(Len(qr_table)) :
          IF NoCursorRow(cursor, qr_rows)
              THEN /\ qr_last' = [op |-> "delete", accepted |-> FALSE, notified |-> TRUE]
                   /\ UNCHANGED <<qr_rows, qr_table, qr_csv>>
              ELSE LET rws == RemoveAt(qr_rows, cursor.val)
                   IN  /\ qr_rows' = rws
                       /\ \/ /\ cursor.val < Len(qr_table)
                             /\ qr_table' = RemoveAt(qr_table, cursor.val)
                             /\ \E w \in WriteOutcomes(rws) :
                                   /\ qr_csv' = WriteCsv(qr_csv, rws, w)
                                   /\ qr_last' = [op |-> "delete", accepted |-> TRUE,
                                                  notified |-> w.kind # "ok"]
                          \/ /\ UNCHANGED <<qr_table, qr_csv>>
                             /\ qr_last' = [op |-> "delete", accepted |-> TRUE,
                                            notified |-> TRUE]
    /\ UNCHANGED <<pc, black_matrix, export, grid, edges, image, gcfg, ids, corners,
                   marker_corners, config, det, run, mainloop, perspVars, restVars>>

NextQR == QRAdd \/ QRDelete

SpecQR == InitQR /\ [][NextQR]_vars

\* ----------------------------------------------------------------- SpecGrid
Black == <<0, 0, 0>>
White == <<255, 255, 255>>
Red   == <<0, 0, 255>>

Ratio(n, d) == [num |-> n, den |-> d]
Thresholds == {Ratio(0, 1), Ratio(3, 10), Ratio(1, 2), Ratio(1, 1)}
GrayThresholds == {None, Val(100)}

Shapes == {wh \in (1..MaxPixels) \X (1..MaxPixels) : wh[1] * wh[2] <= MaxPixels}

SmallImages ==
    UNION {{[h |-> wh[2], w |-> wh[1], px |-> f] :
              f \in [0..(wh[2] - 1) -> [0..(wh[1] - 1) -> {Black, White, Red}]]} :
           wh \in Shapes}

\* the 320x80 sheet: white, with the 10x10 cell (r0, c0) of the 32x8 grid black
Sheet(r0, c0) ==
    [h |-> 80, w |-> 320,
     px |-> [y \in 0..79 |-> [x \in 0..319 |->
               IF y \div 10 = r0 /\ x \div 10 = c0 THEN Black ELSE White]]]

SheetCells == {<<3, 5>>, <<0, 0>>, <<7, 31>>}

InitGrid ==
    /\ pc = "grid"
    /\ \/ \E img \in SmallImages, cols \in 1..MaxGridCols, rows \in 1..MaxGridRows,
             thr \in Thresholds, g \in GrayThresholds :
               /\ image = img
               /\ grid = [width |-> img.w, height |-> img.h, cols |-> cols, rows |-> rows]
               /\ gcfg = [thr |-> thr, gray |-> g]
       \/ \E rc \in SheetCells :
               /\ image = Sheet(rc[1], rc[2])
               /\ grid = [width |-> 320, height |-> 80, cols |-> 32, rows |-> 8]
               /\ gcfg = [thr |-> Ratio(3, 10), gray |-> None]
    /\ edges = None
    /\ IdleEnc /\ IdleCorners /\ IdlePipe
    /\ IdleMain /\ IdlePersp /\ IdleQr
    /\ IdleRest

GridCompute ==
    /\ pc = "grid"
    /\ edges' = generate_grid_edges(image.w, image.h, grid.cols, grid.rows)
    /\ black_matrix' = compute_black_matrix(image, grid.cols, grid.rows, gcfg.thr, gcfg.gray)
    /\ pc' = "grid_matrix"
    /\ UNCHANGED <<export, grid, image, gcfg, ids, corners, marker_corners,
                   config, det, run,
                   mainloop, perspVars, qrVars, restVars>>

GridExport ==
    /\ pc = "grid_matrix"
    /\ export' = ExportResult(black_matrix, TRUE)
    /\ pc' = "grid_done"
    /\ UNCHANGED <<black_matrix, grid, edges, image, gcfg, ids, corners,
                   marker_corners, config, det, run,
                   mainloop, perspVars, qrVars, restVars>>

NextGrid == GridCompute \/ GridExport

SpecGrid == InitGrid /\ [][NextGrid]_vars

\* --------------------------------------------------------------------- Spec
\* The photographed scene: a sheet whose markers 0..3 sit at the corners of a
\* 4x2 rectangle of the input image, and a stray marker 4.
SrcCenter == <<4, 4>>
ScenePlace(id) ==
    CASE id = 0 -> <<2, 3>>
      [] id = 1 -> <<6, 3>>
      [] id = 2 -> <<6, 5>>
      [] id = 3 -> <<2, 5>>
      [] OTHER  -> <<4, 7>>

\* what one detectMarkers call can return: the ids, in detection order
IdLists == {<<>>, <<1>>, <<0, 1, 2>>, <<0, 1, 2, 3>>, <<3, 1, 0, 2>>,
            <<0, 1, 2, 4>>, <<0, 1, 2, 3, 4>>}

SeenIds(l) == IF l = <<>> THEN None ELSE Arr(l)

\* the quads of the markers l as they lie in the image rotated by angle
SeenCorners(l, angle) ==
    Arr([i \in 1..Len(l) |->
           [k \in 1..4 |->
              RotatePoint(QuadAround(ScenePlace(l[i]))[k], SrcCenter, angle)]])

Gray128 == <<128, 128, 128>>

\* what the rectified sheet of size w x h can show (the input is read as
\* grayscale, so every pixel has equal channels)
Fills == {"black", "white", "bottom", "gray"}
Filled(w, h, fill) ==
    [h |-> h, w |-> w,
     px |-> [y \in 0..(h - 1) |-> [x \in 0..(w - 1) |->
               CASE fill = "black"  -> Black
                 [] fill = "white"  -> White
                 [] fill = "bottom" -> IF y = h - 1 THEN Black ELSE White
                 [] OTHER           -> Gray128]]]

\* rectangles select_roi_custom can return for an image of size w x h: the
\* sentinel, the whole image, a part, an empty one, and two whose corner lies
\* outside the image
Rois(w, h) == {<<0, 0, 0, 0>>, <<0, 0, w, h>>, <<1, 0, w - 1, h>>,
               <<1, 1, 0, 1>>, <<2, 1, w, h>>, <<-1, 0, 2, 2>>}

PipeRows == {1, 8} \cup (9..MaxPipeRows)

Configs ==
    [grid_cols : 1..MaxPipeCols, grid_rows : PipeRows,
     black_ratio_threshold : {Ratio(3, 10)}, gray_threshold : GrayThresholds,
     export_crop : BOOLEAN, export_marked : BOOLEAN]

Init ==
    /\ pc = "load"
    /\ config \in Configs
    /\ det = DetStart
    /\ run = RunStart
    /\ ids = None /\ corners = None /\ marker_corners = None
    /\ image = None /\ gcfg = None
    /\ IdleIo /\ IdleEdges
    /\ IdleMain /\ IdlePersp /\ IdleQr
    /\ IdleRest

\* src_gray = imread_unicode(...); if src_gray is None: return 1
PipeLoad ==
    /\ pc = "load"
    /\ \E ok \in BOOLEAN :
          LET r == [Entered(run, "load") EXCEPT !.src_ok = ok]
          IN  IF ok THEN run' = r /\ pc' = "detect"
                    ELSE run' = Returned(r, 1) /\ pc' = "returned"
    /\ UNCHANGED <<black_matrix, export, grid, edges, image, gcfg, ids, corners,
                   marker_corners, config, det,
                   mainloop, perspVars, qrVars, restVars>>

\* one iteration of the rotation search of detect_aruco_markers
PipeDetectStep ==
    /\ pc = "detect"
    /\ ~det.done
    /\ \E l \in IdLists :
          det' = DetIterate(det, SeenCorners(l, Angles[det.i]), SeenIds(l))
    /\ run' = IF det.i = 1 THEN Entered(run, "detect") ELSE run
    /\ UNCHANGED <<pc, black_matrix, export, grid, edges, image, gcfg, ids, corners,
                   marker_corners, config,
                   mainloop, perspVars, qrVars, restVars>>

\* return best_corners, best_ids; if ids is None or len(ids) < 4: return 1
PipeDetectReturn ==
    /\ pc = "detect"
    /\ det.done
    /\ ids' = det.best_ids
    /\ corners' = det.best_corners
    /\ IF DetectFailed(det.best_ids)
          THEN run' = Returned(run, 1) /\ pc' = "returned"
          ELSE run' = run /\ pc' = "corners"
    /\ UNCHANGED <<black_matrix, export, grid, edges, image, gcfg,
                   marker_corners, config, det,
                   mainloop, perspVars, qrVars, restVars>>

\* marker_corners = find_marker_corners(corners, ids); None: return 1
PipeCorners ==
    /\ pc = "corners"
    /\ marker_corners' = find_marker_corners(corners, ids)
    /\ IF marker_corners' = None
          THEN run' = Returned(Entered(run, "corners"), 1) /\ pc' = "returned"
          ELSE run' = Entered(run, "corners") /\ pc' = "rectify"
    /\ UNCHANGED <<black_matrix, export, grid, edges, image, gcfg, ids, corners,
                   config, det,
                   mainloop, perspVars, qrVars, restVars>>

\* corrected = correct_perspective(src, marker_corners, output_size=None)
PipeRectify ==
    /\ pc = "rectify"
    /\ \E fill \in Fills :
          LET size == AutoOutputSize(marker_corners.arr)
          IN  run' = [Entered(run, "rectify") EXCEPT
                         !.corrected = Filled(size[1], size[2], fill)]
    /\ pc' = "roi"
    /\ UNCHANGED <<black_matrix, export, grid, edges, image, gcfg, ids, corners,
                   marker_corners, config, det,
                   mainloop, perspVars, qrVars, restVars>>

\* roi = select_roi_custom(...); the empty-selection check; the crop and the
\* optional cv2.imwrite of it (which raises on an empty image)
PipeRoi ==
    /\ pc = "roi"
    /\ \E roi \in Rois(run.corrected.w, run.corrected.h) :
          LET r == [Entered(run, "roi") EXCEPT !.roi = Arr(roi)]
              cropped == Crop(run.corrected, roi[1], roi[2], roi[3], roi[4])
          IN  IF NoRoi(roi)
                  THEN run' = Returned(r, 1) /\ pc' = "returned" /\ image' = image
              ELSE IF ~config.export_crop
                  THEN run' = r /\ pc' = "sample" /\ image' = cropped
              ELSE IF IsEmptyImage(cropped)
                  THEN /\ run' = Escaped(r, "cv2.error")
                       /\ pc' = "returned" /\ image' = cropped
              ELSE \E ok \in BOOLEAN :
                       /\ image' = cropped
                       /\ IF ok THEN /\ run' = [r EXCEPT !.crop_written = TRUE]
                                     /\ pc' = "sample"
                                ELSE run' = Returned(r, 1) /\ pc' = "returned"
    /\ UNCHANGED <<black_matrix, export, grid, edges, gcfg, ids, corners,
                   marker_corners, config, det,
                   mainloop, perspVars, qrVars, restVars>>

\* analyze_and_highlight_black_cells (if export_marked), which is handed the
\* same array as compute_black_matrix after it, and compute_black_matrix
PipeSample ==
    /\ pc = "sample"
    /\ LET r   == Entered(run, "sample")
           img == IF config.export_marked /\ ~IsEmptyImage(image)
                      THEN ImageAfterHighlight(image, config.grid_cols, config.grid_rows,
                                               config.black_ratio_threshold,
                                               config.gray_threshold)
                      ELSE image
           bm  == compute_black_matrix(img, config.grid_cols, config.grid_rows,
                                       config.black_ratio_threshold,
                                       config.gray_threshold)
       IN  IF IsEmptyImage(image)
               THEN /\ run' = Escaped(r, "cv2.error")
                    /\ pc' = "returned"
                    /\ black_matrix' = black_matrix /\ image' = image
               ELSE /\ run' = [r EXCEPT !.marked = config.export_marked]
                    /\ pc' = "export"
                    /\ black_matrix' = bm /\ image' = img
    /\ UNCHANGED <<export, grid, edges, gcfg, ids, corners,
                   marker_corners, config, det,
                   mainloop, perspVars, qrVars, restVars>>

\* export_black_matrix_as_binary_bytes(black_matrix, export_path=...)
PipeExport ==
    /\ pc = "export"
    /\ \E writable \in BOOLEAN :
          /\ export' = ExportResult(black_matrix, writable)
          /\ IF export'.status = "ok"
                THEN run' = Entered(run, "export") /\ pc' = "finish"
                ELSE /\ run' = Escaped(Entered(run, "export"), export'.status)
                     /\ pc' = "returned"
    /\ UNCHANGED <<black_matrix, grid, edges, image, gcfg, ids, corners,
                   marker_corners, config, det,
                   mainloop, perspVars, qrVars, restVars>>

\* the optional cv2.imwrite of the marked image, the success message, return 0
PipeFinish ==
    /\ pc = "finish"
    /\ IF config.export_marked
          THEN \E ok \in BOOLEAN :
                  run' = IF ok THEN Returned([run EXCEPT !.marked_written = TRUE], 0)
                               ELSE Returned(run, 1)
          ELSE run' = Returned(run, 0)
    /\ pc' = "returned"
    /\ UNCHANGED <<black_matrix, export, grid, edges, image, gcfg, ids, corners,
                   marker_corners, config, det,
                   mainloop, perspVars, qrVars, restVars>>

Next ==
    \/ PipeLoad
    \/ PipeDetectStep
    \/ PipeDetectReturn
    \/ PipeCorners
    \/ PipeRectify
    \/ PipeRoi
    \/ PipeSample
    \/ PipeExport
    \/ PipeFinish

Spec == Init /\ [][Next]_vars

\* ----------------------------------------------------------------- SpecMain
\* main(): while True: build_gui(); run_pipeline(config); the pipeline stages
\* are the actions of Spec.
MainStart == [guis |-> 0, results |-> <<>>, exit |-> None]

\* the configurations build_gui hands back in this specification
MainConfigs ==
    [grid_cols : {1}, grid_rows : {8},
     black_ratio_threshold : {Ratio(3, 10)}, gray_threshold : {None},
     export_crop : {FALSE}, export_marked : BOOLEAN]

InitMain ==
    /\ pc = "gui"
    /\ mainloop = MainStart
    /\ config = None /\ det = None /\ run = None
    /\ ids = None /\ corners = None /\ marker_corners = None
    /\ image = None /\ gcfg = None
    /\ IdleIo /\ IdleEdges /\ IdlePersp /\ IdleQr
    /\ IdleRest

\* config = build_gui(); if not config: return 0; otherwise run_pipeline
\* starts on it
MainBuildGui ==
    /\ pc = "gui"
    /\ mainloop.guis < MaxGuis
    /\ \/ /\ mainloop' = [mainloop EXCEPT !.guis = @ + 1, !.exit = Val(0)]
          /\ pc' = "exited"
          /\ UNCHANGED <<config, det, run, ids, corners, marker_corners, image,
                         black_matrix>>
       \/ /\ mainloop' = [mainloop EXCEPT !.guis = @ + 1]
          /\ config' \in MainConfigs
          /\ det' = DetStart
          /\ run' = RunStart
          /\ ids' = None /\ corners' = None /\ marker_corners' = None
          /\ image' = None /\ black_matrix' = None
          /\ pc' = "load"
    /\ UNCHANGED <<export, grid, edges, gcfg, perspVars, qrVars, restVars>>

\* if result != 0: return result; an exception of run_pipeline leaves main too
ExitsMain(result) == result # Val(0)

\* result = run_pipeline(config); if result != 0: return result; otherwise
\* the loop shows the GUI again
MainAfterRun ==
    /\ pc = "returned"
    /\ mainloop' = [mainloop EXCEPT !.results = Append(@, run.result),
                                    !.exit = IF ExitsMain(run.result)
                                                 THEN run.result ELSE @]
    /\ pc' = IF ExitsMain(run.result) THEN "exited" ELSE "gui"
    /\ UNCHANGED <<black_matrix, export, grid, edges, image, gcfg, ids, corners,
                   marker_corners, config, det, run, perspVars, qrVars, restVars>>

NextMain ==
    \/ MainBuildGui
    \/ MainAfterRun
    \/ PipeLoad
    \/ PipeDetectStep
    \/ PipeDetectReturn
    \/ PipeCorners
    \/ PipeRectify
    \/ PipeRoi
    \/ PipeSample
    \/ PipeExport
    \/ PipeFinish

SpecMain == InitMain /\ [][NextMain]_vars

\* ----------------------------------------------------------------- SpecFlex
\* OMRReader.detect_aruco_markers_flexible.  The image is described by what
\* the detector finds in it: scene.shape is the shape of the preprocessed
\* image, scene.hits the (dictionary, scale) combinations at which markers
\* decode and how many.  A scale is the fraction num/den.
dict_options == <<"DICT_7X7_50", "DICT_6X6_50", "DICT_5X5_50", "DICT_4X4_50">>

scales == << [num |-> 3, den |-> 10], [num |-> 1, den |-> 2],
             [num |-> 3, den |-> 4], [num |-> 1, den |-> 1],
             [num |-> 5, den |-> 4], [num |-> 3, den |-> 2],
             [num |-> 2, den |-> 1], [num |-> 3, den |-> 1] >>

\* the quad of marker m in the frame of the preprocessed image, as
\* (TL, TR, BR, BL); the coordinates are multiples of 20, so that every
\* scale maps them to whole numbers
SceneQuad(m) ==
    << <<100 * m + 20, 40>>, <<100 * m + 60, 40>>,
       <<100 * m + 60, 80>>, <<100 * m + 20, 80>> >>

\* cv2.resize to (int(w * scale), int(h * scale)): a point of the image moves
\* to its coordinates times the scale
ScalePoint(p, scale) ==
    <<(p[1] * scale.num) \div scale.den, (p[2] * scale.num) \div scale.den>>

\* the shape of the scaled image; scale 1.0 uses the image as it is
ScaledShape(shape, scale) ==
    IF scale.num = scale.den THEN shape
    ELSE <<(shape[1] * scale.num) \div scale.den,
           (shape[2] * scale.num) \div scale.den>>

\* cv2.resize raises cv2.error for an empty destination size
ResizeRaises(shape, scale) ==
    LET s == ScaledShape(shape, scale) IN s[1] = 0 \/ s[2] = 0

\* the number of markers that decode with dictionary dict_type at scale
FoundAt(sc, dict_type, scale) ==
    LET hs == {h \in sc.hits : h.dict = dict_type /\ h.scale = scale} IN
    IF hs = {} THEN 0 ELSE (CHOOSE h \in hs : TRUE).n

\* temp_detector.detectMarkers(scaled_image): corners in the frame of the
\* scaled image, one 1 x 4 x 2 array per marker, and the ids (None when
\* nothing was found)
DetectMarkers(sc, dict_type, scale) ==
    LET n == FoundAt(sc, dict_type, scale) IN
    IF n = 0 THEN [corners |-> <<>>, ids |-> None]
    ELSE [corners |->
              [m \in 1..n |->
                  << [p \in 1..4 |-> ScalePoint(SceneQuad(m - 1)[p], scale)] >>],
          ids |-> Arr([m \in 1..n |-> m - 1])]

\* corner[0] / scale, without the division
AdjustCornerMutE(quad, scale) == quad

\* corner[0] / scale
AdjustCorner(quad, scale) ==
    [p \in 1..4 |-> <<(quad[p][1] * scale.den) \div scale.num,
                      (quad[p][2] * scale.den) \div scale.num>>]

\* the corners stored as best_corners
AdjustedCorners(cs, scale) ==
    IF scale.num # scale.den
    THEN [m \in 1..Len(cs) |-> <<AdjustCorner(cs[m][1], scale)>>]
    ELSE cs

FlexShapes == {<<2, 3>>, <<400, 600>>}

FlexHits ==
    {[dict |-> dict_options[d], scale |-> scales[k], n |-> n] :
        d \in 1..Len(dict_options), k \in 1..Len(scales), n \in 1..MaxMarkers}

\* the state after best_corners, best_ids and max_detected are set and before
\* the first dictionary is tried
InitFlex ==
    /\ pc = "flex"
    /\ \E shape \in FlexShapes :
       \E h1 \in FlexHits \cup {None}, h2 \in FlexHits \cup {None} :
          /\ h1 # None /\ h2 # None =>
                h1.dict # h2.dict \/ h1.scale # h2.scale
          /\ scene = [shape |-> shape, hits |-> {h1, h2} \ {None}]
    /\ flex = [di |-> 1, si |-> 1, best_corners |-> None, best_ids |-> None,
               max_detected |-> 0, tried |-> <<>>, status |-> "searching"]
    /\ IdleEnc /\ IdleEdges /\ IdleGrid /\ IdleCorners /\ IdlePipe
    /\ IdleMain /\ IdlePersp /\ IdleQr
    /\ IdleSel /\ IdleCart /\ IdleSerial

\* one pass of the inner loop: resize, detect, keep the result when it has
\* more markers than the best so far, return when it has four or more
FlexTry ==
    /\ pc = "flex"
    /\ flex.status = "searching"
    /\ flex.di <= Len(dict_options)
    /\ LET dict_type == dict_options[flex.di]
           scale == scales[flex.si]
           found == DetectMarkers(scene, dict_type, scale)
           better == found.ids # None /\ Len(found.ids.arr) > flex.max_detected
           last == flex.si = Len(scales)
           tried == Append(flex.tried, <<dict_type, scale>>)
       IN  IF ResizeRaises(scene.shape, scale)
           THEN flex' = [flex EXCEPT !.status = "raised", !.tried = tried]
           ELSE flex' =
                  [di |-> IF last THEN flex.di + 1 ELSE flex.di,
                   si |-> IF last THEN 1 ELSE flex.si + 1,
                   best_corners |->
                      IF better THEN Arr(AdjustedCorners(found.corners, scale))
                      ELSE flex.best_corners,
                   best_ids |-> IF better THEN found.ids ELSE flex.best_ids,
                   max_detected |->
                      IF better THEN Len(found.ids.arr) ELSE flex.max_detected,
                   tried |-> tried,
                   status |->
                      IF better /\ Len(found.ids.arr) >= 4 THEN "returned"
                      ELSE "searching"]
    /\ UNCHANGED <<pc, omrVars, scene, sel, cartVars, serialVars>>

\* every dictionary has been tried: return best_corners, best_ids
FlexExhausted ==
    /\ pc = "flex"
    /\ flex.status = "searching"
    /\ flex.di > Len(dict_options)
    /\ flex' = [flex EXCEPT !.status = "returned"]
    /\ UNCHANGED <<pc, omrVars, scene, sel, cartVars, serialVars>>

NextFlex == FlexTry \/ FlexExhausted

SpecFlex == InitFlex /\ [][NextFlex]_vars

\* ------------------------------------------------------------------ SpecRoi
\* select_roi_custom and the check run_pipeline makes on what it returns.
\* sel.events is the log of the mouse events the window delivered, sel.ended
\* how the loop was left, sel.run what run_pipeline did with the result.
MouseEvents == {"EVENT_LBUTTONDOWN", "EVENT_MOUSEMOVE", "EVENT_LBUTTONUP"}

\* positions the mouse reports, some of them outside the image
MousePoints == {<<-1, 0>>, <<0, 0>>, <<2, 1>>, <<1, 3>>}

\* what cv2.waitKey(16) returns: -1 without a key press, else the key code
WaitKeys == {-1, 13, 32, 27, 97}

\* key = cv2.waitKey(16) & 0xFF
KeyByte(k) == k % 256

\* sorted([a, b])
Sorted2(a, b) == IF a <= b THEN <<a, b>> ELSE <<b, a>>

\* the rectangle of a finished drag, taken from its start point as it is
RoiOfMutE(start_pt, end_pt) ==
    <<start_pt[1], start_pt[2],
      Max2(0, end_pt[1] - start_pt[1]), Max2(0, end_pt[2] - start_pt[2])>>

\* roi = (x_min, y_min, max(0, x_max - x_min), max(0, y_max - y_min))
RoiOf(start_pt, end_pt) ==
    LET xs == Sorted2(start_pt[1], end_pt[1])
        ys == Sorted2(start_pt[2], end_pt[2])
    IN  <<xs[1], ys[1], Max2(0, xs[2] - xs[1]), Max2(0, ys[2] - ys[1])>>

\* the rectangle after Esc, kept as it was
CancelledRoiMutE(roi) == roi

\* roi = (0, 0, 0, 0) on Esc and when the window was closed
CancelledRoi(roi) == <<0, 0, 0, 0>>

\* the state after the window is created and the callback is set
InitRoi ==
    /\ pc = "select"
    /\ sel = [start_pt |-> None, end_pt |-> None, selecting |-> FALSE,
              roi |-> <<0, 0, 0, 0>>, visible |-> TRUE, events |-> <<>>,
              ended |-> None, result |-> None, run |-> "selecting"]
    /\ IdleEnc /\ IdleEdges /\ IdleGrid /\ IdleCorners /\ IdlePipe
    /\ IdleMain /\ IdlePersp /\ IdleQr
    /\ IdleFlex /\ IdleCart /\ IdleSerial

\* on_mouse(event, x, y, flags, param)
RoiMouse ==
    /\ pc = "select"
    /\ sel.visible
    /\ Len(sel.events) < MaxEvents
    /\ \E event \in MouseEvents, pt \in MousePoints :
          LET logged == [sel EXCEPT !.events = Append(@, [event |-> event, pt |-> pt])]
          IN  sel' =
                IF event = "EVENT_LBUTTONDOWN"
                THEN [logged EXCEPT !.selecting = TRUE, !.start_pt = Arr(pt),
                                    !.end_pt = Arr(pt)]
                ELSE IF event = "EVENT_MOUSEMOVE" /\ sel.selecting
                THEN [logged EXCEPT !.end_pt = Arr(pt)]
                ELSE IF event = "EVENT_LBUTTONUP" /\ sel.selecting
                THEN [logged EXCEPT !.selecting = FALSE, !.end_pt = Arr(pt),
                                    !.roi = RoiOf(sel.start_pt.arr, pt)]
                ELSE logged
    /\ UNCHANGED <<pc, omrVars, flexVars, cartVars, serialVars>>

\* the user closes the window
RoiClose ==
    /\ pc = "select"
    /\ sel.visible
    /\ sel' = [sel EXCEPT !.visible = FALSE]
    /\ UNCHANGED <<pc, omrVars, flexVars, cartVars, serialVars>>

\* one pass of the while loop: the visibility check, then the key
RoiLoop ==
    /\ pc = "select"
    /\ IF ~sel.visible
       THEN /\ sel' = [sel EXCEPT !.roi = CancelledRoi(sel.roi),
                                  !.result = Arr(CancelledRoi(sel.roi)),
                                  !.ended = "closed", !.run = "returned"]
            /\ pc' = "selected"
       ELSE \E k \in WaitKeys :
               LET key == KeyByte(k) IN
               IF key \in {13, 32}
               THEN /\ sel' = [sel EXCEPT !.result = Arr(sel.roi),
                                          !.ended = "confirm", !.run = "returned"]
                    /\ pc' = "selected"
               ELSE IF key = 27
               THEN /\ sel' = [sel EXCEPT !.roi = CancelledRoi(sel.roi),
                                          !.result = Arr(CancelledRoi(sel.roi)),
                                          !.ended = "esc", !.run = "returned"]
                    /\ pc' = "selected"
               ELSE UNCHANGED <<sel, pc>>
    /\ UNCHANGED <<omrVars, flexVars, cartVars, serialVars>>

\* run_pipeline after select_roi_custom returned: abort on an empty
\* rectangle, else go on to the crop and the sampling
RoiChecked ==
    /\ pc = "selected"
    /\ sel' = [sel EXCEPT !.run = IF NoRoi(sel.result.arr) THEN "aborted"
                                  ELSE "sampling"]
    /\ pc' = "select_done"
    /\ UNCHANGED <<omrVars, flexVars, cartVars, serialVars>>

NextRoi == RoiMouse \/ RoiClose \/ RoiLoop \/ RoiChecked

SpecRoi == InitRoi /\ [][NextRoi]_vars

\* ----------------------------------------------------------------- SpecCart
\* The cart of CashRegisterApp (casherqr/cash_register.py).  cart_tree shows
\* one row per cart entry, in cart order, after every handler
\* (update_cart_display); selection holds the tree positions (from 0) of the
\* selected rows.  save_cart_to_csv appends at most the header line to the
\* CSV file and changes nothing of the program's state.
\* ProductManager.products; the names are romanised here
products ==
    << [qr_string |-> "Qhurihuri", name |-> "hurihuri", price |-> 1000],
       [qr_string |-> "Qkarambit", name |-> "karambit", price |-> 400],
       [qr_string |-> "Qkatipotikun", name |-> "katipotikun", price |-> 500],
       [qr_string |-> "Qspiral", name |-> "spiral", price |-> 300] >>

\* ProductManager.get_product_by_qr_string: the first product with that
\* qr_string, or None
get_product_by_qr_string(qr_string) ==
    LET found == {k \in 1..Len(products) : products[k].qr_string = qr_string} IN
    IF found = {} THEN None
    ELSE products[CHOOSE k \in found : \A j \in found : k <= j]

\* the strings handed to add_to_cart: the registered ones and one that is not
QrStrings == {products[k].qr_string : k \in 1..Len(products)} \cup {"Qunknown"}

\* the cart after add_to_cart(qr_string); the timestamp of the entry is left
\* out
AddToCart(c, qr_string) ==
    LET product == get_product_by_qr_string(qr_string) IN
    IF product = None THEN c
    ELSE Append(c, [qr_string |-> qr_string, name |-> product.name,
                    price |-> product.price])

\* cart_tree.selection(): the selected rows in tree order
RECURSIVE SelectedItems(_)
SelectedItems(S) ==
    IF S = {} THEN <<>>
    ELSE LET least == CHOOSE i \in S : \A j \in S : i <= j
         IN  <<least>> \o SelectedItems(S \ {least})

\* the loop of delete_selected_item over the first n selected items: each
\* index is the row's position in the tree, which is not refreshed until the
\* loop is over
RECURSIVE DeleteItems(_, _, _)
DeleteItems(c, selected_items, n) ==
    IF n = 0 THEN c
    ELSE LET sofar == DeleteItems(c, selected_items, n - 1)
             index == selected_items[n]
         IN  IF 0 <= index /\ index < Len(sofar) THEN RemoveAt(sofar, index)
             ELSE sofar

InitCart ==
    /\ pc = "cart"
    /\ cart = <<>>
    /\ selection = {}
    /\ cart_last = [op |-> "init", before |-> <<>>, selected |-> {}]
    /\ IdleEnc /\ IdleEdges /\ IdleGrid /\ IdleCorners /\ IdlePipe
    /\ IdleMain /\ IdlePersp /\ IdleQr
    /\ IdleFlex /\ IdleSel /\ IdleSerial

\* add_to_cart(qr_string), from the product list or from a scan
CartAdd ==
    /\ pc = "cart"
    /\ Len(cart) < MaxCart
    /\ \E qr_string \in QrStrings :
          /\ cart' = AddToCart(cart, qr_string)
          /\ selection' = IF get_product_by_qr_string(qr_string) = None
                          THEN selection ELSE {}
          /\ cart_last' = [op |-> "add", before |-> cart, selected |-> selection]
    /\ UNCHANGED <<pc, omrVars, flexVars, sel, serialVars>>

\* the user changes the selection of cart_tree
CartSelect ==
    /\ pc = "cart"
    /\ \E S \in SUBSET (0..(Len(cart) - 1)) :
          /\ S # selection
          /\ selection' = S
    /\ UNCHANGED <<pc, cart, cart_last, omrVars, flexVars, sel, serialVars>>

\* delete_selected_item
CartDelete ==
    /\ pc = "cart"
    /\ LET selected_items == SelectedItems(selection) IN
       IF selected_items = <<>>
       THEN /\ cart_last' = [op |-> "delete_none", before |-> cart,
                             selected |-> selection]
            /\ UNCHANGED <<cart, selection>>
       ELSE /\ cart' = DeleteItems(cart, selected_items, Len(selected_items))
            /\ selection' = {}
            /\ cart_last' = [op |-> "delete", before |-> cart,
                             selected |-> selection]
    /\ UNCHANGED <<pc, omrVars, flexVars, sel, serialVars>>

\* clear_cart, the question answered with yes or with no
CartClear ==
    /\ pc = "cart"
    /\ IF cart = <<>>
       THEN /\ cart_last' = [op |-> "clear_empty", before |-> cart,
                             selected |-> selection]
            /\ UNCHANGED <<cart, selection>>
       ELSE \/ /\ cart' = <<>>
               /\ selection' = {}
               /\ cart_last' = [op |-> "clear", before |-> cart,
                                selected |-> selection]
            \/ /\ cart_last' = [op |-> "clear_no", before |-> cart,
                                selected |-> selection]
               /\ UNCHANGED <<cart, selection>>
    /\ UNCHANGED <<pc, omrVars, flexVars, sel, serialVars>>

NextCart == CartAdd \/ CartSelect \/ CartDelete \/ CartClear

SpecCart == InitCart /\ [][NextCart]_vars

\* --------------------------------------------------------------- SpecSerial
\* The serial connection of CashRegisterApp: toggle_serial_connection and
\* update_data on the GUI thread, serial_read_loop on one thread per
\* successful connect.  The k-th connect creates conns[k] and the reader
\* threads.readers[k]; threads.main is the position of the GUI thread.  Every
\* evaluation of self.serial_reader by a reader is a step of its own, since
\* the GUI thread may assign the attribute in between.
\* A line is the sequence of its words and blanks (the blank stands for any
\* whitespace, the line end included); "0xFF" is a byte that is not UTF-8.
SerialLines == { <<"Qhurihuri", " ">>, <<"Qunknown", " ">>, <<" ">>,
                 <<"0xFF", " ">> }

\* line.decode('utf-8').strip(): the stripped text, or UnicodeDecodeError
DecodeLine(line) ==
    IF \E k \in 1..Len(line) : line[k] = "0xFF"
    THEN Raised("UnicodeDecodeError")
    ELSE Val(Strip(line))

\* the string of a text of one word
TextOf(s) == s[1]

\* the lines the devices have sent so far
LinesSent ==
    LET RECURSIVE Pending(_)
        Pending(n) == IF n = 0 THEN 0
                      ELSE Len(conns[n].pending) + Pending(n - 1)
    IN  Len(read_log) + Pending(Len(conns))

\* update_data: add_to_cart for every string of the queue, in queue order
RECURSIVE AddAll(_, _)
AddAll(c, q) == IF q = <<>> THEN c ELSE AddAll(AddToCart(c, TextOf(Head(q))), Tail(q))

\* the state after __init__
InitSerial ==
    /\ pc = "serial"
    /\ serial_reader = None
    /\ conns = <<>>
    /\ threads = [main |-> "idle", readers |-> <<>>]
    /\ data_queue = <<>>
    /\ read_log = <<>>
    /\ handed = <<>>
    /\ cart = <<>>
    /\ selection = {}
    /\ cart_last = [op |-> "init", before |-> <<>>, selected |-> {}]
    /\ IdleEnc /\ IdleEdges /\ IdleGrid /\ IdleCorners /\ IdlePipe
    /\ IdleMain /\ IdlePersp /\ IdleQr
    /\ IdleFlex /\ IdleSel

\* toggle_serial_connection while self.serial_reader is None: serial.Serial
\* opens the port and the reader thread is started, or it raises and
\* serial_reader stays None
SerialConnect ==
    /\ pc = "serial"
    /\ threads.main = "idle"
    /\ serial_reader = None
    /\ Len(conns) < MaxConnects
    /\ \E opened \in BOOLEAN :
          IF opened
          THEN /\ conns' = Append(conns, [is_open |-> TRUE, pending |-> <<>>])
               /\ serial_reader' = Val(Len(conns) + 1)
               /\ threads' = [threads EXCEPT !.readers =
                                 Append(@, [pc |-> "while", decoded_line |-> None])]
          ELSE UNCHANGED <<conns, serial_reader, threads>>
    /\ UNCHANGED <<pc, omrVars, flexVars, sel, cartVars, data_queue, read_log, handed>>

\* toggle_serial_connection while self.serial_reader is set, first half:
\* self.serial_reader.close()
SerialClose ==
    /\ pc = "serial"
    /\ threads.main = "idle"
    /\ serial_reader # None
    /\ conns' = [conns EXCEPT ![serial_reader.val].is_open = FALSE]
    /\ threads' = [threads EXCEPT !.main = "closed"]
    /\ UNCHANGED <<pc, omrVars, flexVars, sel, cartVars, serial_reader,
                   data_queue, read_log, handed>>

\* second half: self.serial_reader = None
SerialClear ==
    /\ pc = "serial"
    /\ threads.main = "closed"
    /\ serial_reader' = None
    /\ threads' = [threads EXCEPT !.main = "idle"]
    /\ UNCHANGED <<pc, omrVars, flexVars, sel, cartVars, conns,
                   data_queue, read_log, handed>>

\* the device at the other end of an open connection sends a line
DeviceSend ==
    /\ pc = "serial"
    /\ LinesSent < MaxLines
    /\ \E c \in 1..Len(conns), line \in SerialLines :
          /\ conns[c].is_open
          /\ conns' = [conns EXCEPT ![c].pending = Append(@, line)]
    /\ UNCHANGED <<pc, omrVars, flexVars, sel, cartVars, serial_reader, threads,
                   data_queue, read_log, handed>>

\* reader t moves to position p, its decoded_line becoming d
Moved(t, p, d) ==
    [threads EXCEPT !.readers[t] = [pc |-> p, decoded_line |-> d]]

\* while self.serial_reader ...: the truth value of the attribute
ReaderWhile ==
    /\ pc = "serial"
    /\ \E t \in 1..Len(threads.readers) :
          /\ threads.readers[t].pc = "while"
          /\ threads' = Moved(t, IF serial_reader = None THEN "done" ELSE "is_open", None)
    /\ UNCHANGED <<pc, omrVars, flexVars, sel, cartVars, serial_reader, conns,
                   data_queue, read_log, handed>>

\* ... and self.serial_reader.is_open: the attribute is read again; on None
\* the AttributeError is outside the try and ends the thread
ReaderIsOpen ==
    /\ pc = "serial"
    /\ \E t \in 1..Len(threads.readers) :
          /\ threads.readers[t].pc = "is_open"
          /\ threads' = Moved(t, IF serial_reader = None THEN "died"
                                 ELSE IF conns[serial_reader.val].is_open THEN "in_waiting"
                                 ELSE "done", None)
    /\ UNCHANGED <<pc, omrVars, flexVars, sel, cartVars, serial_reader, conns,
                   data_queue, read_log, handed>>

\* if self.serial_reader.in_waiting > 0: on None or on a closed port the
\* exception is caught and the loop is left
ReaderInWaiting ==
    /\ pc = "serial"
    /\ \E t \in 1..Len(threads.readers) :
          /\ threads.readers[t].pc = "in_waiting"
          /\ threads' =
                Moved(t, IF serial_reader = None THEN "done"
                         ELSE IF ~conns[serial_reader.val].is_open THEN "done"
                         ELSE IF Len(conns[serial_reader.val].pending) > 0 THEN "readline"
                         ELSE "while", None)
    /\ UNCHANGED <<pc, omrVars, flexVars, sel, cartVars, serial_reader, conns,
                   data_queue, read_log, handed>>

\* line = self.serial_reader.readline() and the decoding of the line; an
\* empty result (timeout), an empty text and UnicodeDecodeError go back to
\* the loop test, an exception of readline leaves the loop
ReaderReadline ==
    /\ pc = "serial"
    /\ \E t \in 1..Len(threads.readers) :
          /\ threads.readers[t].pc = "readline"
          /\ IF serial_reader = None
             THEN /\ threads' = Moved(t, "done", None)
                  /\ UNCHANGED <<conns, read_log>>
             ELSE LET c == serial_reader.val IN
                  IF ~conns[c].is_open
                  THEN /\ threads' = Moved(t, "done", None)
                       /\ UNCHANGED <<conns, read_log>>
                  ELSE IF conns[c].pending = <<>>
                  THEN /\ threads' = Moved(t, "while", None)
                       /\ UNCHANGED <<conns, read_log>>
                  ELSE LET line == Head(conns[c].pending)
                           decoded == DecodeLine(line)
                       IN  /\ conns' = [conns EXCEPT ![c].pending = Tail(@)]
                           /\ read_log' = Append(read_log,
                                 [thread |-> t, conn |-> c, line |-> line])
                           /\ threads' =
                                 IF decoded = Raised("UnicodeDecodeError")
                                    \/ decoded.val = <<>>
                                 THEN Moved(t, "while", None)
                                 ELSE Moved(t, "put", Arr(decoded.val))
    /\ UNCHANGED <<pc, omrVars, flexVars, sel, cartVars, serial_reader,
                   data_queue, handed>>

\* self.data_queue.put(decoded_line)
ReaderPut ==
    /\ pc = "serial"
    /\ \E t \in 1..Len(threads.readers) :
          /\ threads.readers[t].pc = "put"
          /\ data_queue' = Append(data_queue, threads.readers[t].decoded_line.arr)
          /\ threads' = Moved(t, "while", None)
    /\ UNCHANGED <<pc, omrVars, flexVars, sel, cartVars, serial_reader, conns,
                   read_log, handed>>

\* update_data with a queue that is not empty (with an empty queue it only
\* schedules itself again): every queued string goes to add_to_cart
GuiUpdate ==
    /\ pc = "serial"
    /\ threads.main = "idle"
    /\ data_queue # <<>>
    /\ handed' = handed \o data_queue
    /\ cart' = AddAll(cart, data_queue)
    /\ selection' = {}
    /\ cart_last' = [op |-> "add", before |-> cart, selected |-> selection]
    /\ data_queue' = <<>>
    /\ UNCHANGED <<pc, omrVars, flexVars, sel, serial_reader, conns, threads,
                   read_log>>

NextSerial ==
    \/ SerialConnect \/ SerialClose \/ SerialClear \/ DeviceSend
    \/ ReaderWhile \/ ReaderIsOpen \/ ReaderInWaiting \/ ReaderReadline
    \/ ReaderPut \/ GuiUpdate

SpecSerial == InitSerial /\ [][NextSerial]_vars

\* ------------------------------------------------------------ claims C1, C2
IsSeparator(line) == line = ","
ExportTokens == SelectSeq(export.lines, LAMBDA line : ~IsSeparator(line))

RECURSIVE ExpectedDigits(_, _, _)
ExpectedDigits(bm, c, r) ==
    IF r > 7 THEN ""
    ELSE (IF r < bm.rows /\ bm.at[r][c] = 1 THEN "1" ELSE "0")
         \o ExpectedDigits(bm, c, r + 1)

ExpectedToken(bm, c) == "0b" \o ExpectedDigits(bm, c, 0) \o ","

\* C1: for a matrix with rows <= 8 the export succeeds and the token of every
\* column c is "0b", then the eight digits in which row r is digit r from the
\* left (row 0 first, zeros for the rows the matrix does not have), then ",".
C1_TokenPacksRowsMsbFirst ==
    (pc = "enc_done" /\ black_matrix.rows <= 8) =>
        /\ export.status = "ok"
        /\ Len(ExportTokens) = black_matrix.cols
        /\ \A c \in 0..(black_matrix.cols - 1) :
              /\ ExportTokens[c + 1] = ExpectedToken(black_matrix, c)
              /\ Len(ExportTokens[c + 1]) = 11

\* C1 witness: an 8-row matrix whose column 0 has only row 0 set was exported
\* and its token is 0b10000000,
C1_Witness ==
    /\ pc = "enc_done"
    /\ black_matrix.rows = 8
    /\ black_matrix.at[0][0] = 1
    /\ \A r \in 1..7 : black_matrix.at[r][0] = 0
    /\ export.written
    /\ ExportTokens[1] = "0b10000000,"

\* C2: for cols >= 1 the export holds the cols tokens in column order, one per
\* line, with one "," line after each complete group of 8 tokens that is
\* followed by another token, and the last line is a token.
C2_GroupsOfEightSeparated ==
    (pc = "enc_done" /\ black_matrix.rows <= 8 /\ black_matrix.cols >= 1) =>
        LET n == black_matrix.cols
            lines == export.lines
        IN  /\ export.written
            /\ Len(lines) = n + (n - 1) \div 8
            /\ \A j \in 1..Len(lines) :
                  IF j % 9 = 0
                      THEN lines[j] = ","
                      ELSE lines[j] = ExpectedToken(black_matrix, j - (j \div 9) - 1)
            /\ lines[Len(lines)] # ","

\* C2 witness: 10 columns were exported as 8 tokens, one "," line, 2 tokens
C2_Witness ==
    /\ pc = "enc_done"
    /\ black_matrix.cols = 10
    /\ Len(export.lines) = 11
    /\ export.lines[9] = ","
    /\ \A j \in (1..11) \ {9} : export.lines[j] # ","

\* ---------------------------------------------------------------- claim C3
IdSet(idlist) == {idlist.arr[i] : i \in 1..Len(idlist.arr)}

NonDecreasing(e, n) == \A i \in 0..(n - 1) : e[i] <= e[i + 1]

\* C4: for cols >= 1 and width >= 0 (rows, height alike) generate_grid_edges
\* returns cols+1 non-decreasing coordinates, the first 0 and the last width.
C4_EdgesCoverExactly ==
    pc = "edges_done" =>
        /\ DOMAIN edges.x = 0..grid.cols
        /\ NonDecreasing(edges.x, grid.cols)
        /\ edges.x[0] = 0 /\ edges.x[grid.cols] = grid.width
        /\ DOMAIN edges.y = 0..grid.rows
        /\ NonDecreasing(edges.y, grid.rows)
        /\ edges.y[0] = 0 /\ edges.y[grid.rows] = grid.height

\* C4 witness: a width that the columns do not divide (7 over 3 columns) and
\* more rows than pixels of height
C4_Witness ==
    /\ pc = "edges_done"
    /\ grid.width = 7 /\ grid.cols = 3
    /\ edges.x = (0 :> 0 @@ 1 :> 2 @@ 2 :> 4 @@ 3 :> 7)
    /\ grid.height = 2 /\ grid.rows = 4
    /\ edges.y[4] = 2

\* ---------------------------------------------------------------- claim C7
\* C7: a cell with at least one pixel is filled (bit 1) iff
\* (total - nonzero after binarization) / total >= black_ratio_threshold.
C7_FilledIffRatioAtLeastThreshold ==
    pc \in {"grid_matrix", "grid_done"} =>
        \A r \in 0..(grid.rows - 1), c \in 0..(grid.cols - 1) :
            LET block   == CellBlock(edges, r, c, image.w, image.h)
                total   == Cardinality(block)
                nonzero == CountNonZero(image, block,
                                        CellThreshold(image, block, gcfg.gray))
            IN  total > 0 =>
                  (black_matrix.at[r][c] = 1 <=>
                      (total - nonzero) * gcfg.thr.den >= gcfg.thr.num * total)

\* C7 witness: a cell whose black ratio equals a threshold strictly between 0
\* and 1 exactly, and which was classified filled
C7_Witness ==
    /\ pc = "grid_matrix"
    /\ gcfg.thr.num > 0 /\ gcfg.thr.num < gcfg.thr.den
    /\ \E r \in 0..(grid.rows - 1), c \in 0..(grid.cols - 1) :
          LET block   == CellBlock(edges, r, c, image.w, image.h)
              total   == Cardinality(block)
              nonzero == CountNonZero(image, block,
                                      CellThreshold(image, block, gcfg.gray))
          IN  /\ total > 0
              /\ (total - nonzero) * gcfg.thr.den = gcfg.thr.num * total
              /\ black_matrix.at[r][c] = 1

\* ---------------------------------------------------------------- claim C9
\* the run is on the 320x80 sheet, 32x8 grid, threshold 0.3, per-cell Otsu,
\* all white except the fully black cell (r0, c0)
IsSheetRun(r0, c0) ==
    /\ image.w = 320 /\ image.h = 80
    /\ grid.cols = 32 /\ grid.rows = 8
    /\ gcfg.thr = [num |-> 3, den |-> 10] /\ gcfg.gray = None
    /\ \A y \in 0..79, x \in 0..319 :
          image.px[y][x] = IF y \div 10 = r0 /\ x \div 10 = c0
                               THEN <<0, 0, 0>> ELSE <<255, 255, 255>>

\* C9: on that sheet with the black cell at (3, 5) the matrix has a single 1,
\* at (3, 5), the token of column 5 is 0b00010000, and every other token is
\* 0b00000000,
C9_SheetEndToEnd ==
    (pc = "grid_done" /\ IsSheetRun(3, 5)) =>
        /\ black_matrix.rows = 8 /\ black_matrix.cols = 32
        /\ \A r \in 0..7, c \in 0..31 :
              black_matrix.at[r][c] = IF r = 3 /\ c = 5 THEN 1 ELSE 0
        /\ export.written
        /\ Len(ExportTokens) = 32
        /\ \A i \in 0..31 :
              ExportTokens[i + 1] = IF i = 5 THEN "0b00010000," ELSE "0b00000000,"

\* C9 witness: the sheet with the black cell at (3, 5) was sampled and exported
C9_Witness ==
    /\ pc = "grid_done"
    /\ IsSheetRun(3, 5)
    /\ black_matrix.at[3][5] = 1
    /\ ExportTokens[6] = "0b00010000,"

\* ---------------------------------------------------------------- claim C5
\* C5: no partial success: when run_pipeline has ended, the export file has
\* been written in that run iff the run returned 0.
C5_ExportWrittenIffSuccess ==
    pc = "returned" => (export.written <=> run.result = Val(0))

\* ---------------------------------------------------------------- claim C6
InTrace(stage) == \E k \in 1..Len(run.trace) : run.trace[k] = stage

\* C6: a configuration with rows > 8 is rejected before sampling, so
\* compute_black_matrix never runs on it, the encoder never receives a matrix
\* of more than 8 rows, and the packing step never crashes.
C6_RowsValidatedBeforeSampling ==
    /\ config.grid_rows > 8 => black_matrix = None
    /\ black_matrix # None => black_matrix.rows <= 8
    /\ export.status # "ValueError"

\* ---------------------------------------------------------------- claim C8
\* C8: the detector is invoked on the orientations 0, 90, 180, 270 in this
\* order, never again after an invocation that returned >= 4 markers (so once
\* only when 0 degrees returns >= 4), and the search ends exactly when an
\* invocation returned >= 4 markers or all four orientations were tried.
C8_SearchStopsAtFirstFour ==
    LET calls == det.calls
        n     == Len(calls)
    IN  /\ n <= 4
        /\ \A k \in 1..n : calls[k].angle = <<0, 90, 180, 270>>[k]
        /\ \A k \in 1..(n - 1) : calls[k].n < 4
        /\ (n >= 1 /\ calls[1].n >= 4) => n = 1
        /\ det.done <=> (n = 4 \/ (n >= 1 /\ calls[n].n >= 4))

\* C8 witness: the 0-degree orientation returned 4 markers, the search has
\* ended and the pipeline has moved on after a single invocation
C8_Witness ==
    /\ pc = "corners"
    /\ Len(det.calls) = 1
    /\ det.calls[1] = [angle |-> 0, n |-> 4]

\* --------------------------------------------------------------- claim C10
IsPrefix(a, b) == Len(a) <= Len(b) /\ \A k \in 1..Len(a) : a[k] = b[k]

FewerThanFour(idlist) == idlist = None \/ Len(idlist.arr) < 4

\* C10: the stages run in the order load, detect, corners, rectify, roi,
\* sample, export, none twice and none before its predecessor has finished
\* successfully; a failed load, a detection of fewer than 4 markers and a
\* failed corner resolution each end the run with result 1 at that stage.
C10_StagesInOrderAndFailuresStop ==
    /\ IsPrefix(run.trace,
                <<"load", "detect", "corners", "rectify", "roi", "sample", "export">>)
    /\ InTrace("detect") => run.src_ok
    /\ InTrace("corners") => det.done /\ ~FewerThanFour(det.best_ids)
    /\ InTrace("rectify") => marker_corners # None
    /\ (pc = "returned" /\ ~run.src_ok) =>
          run.result = Val(1) /\ run.trace = <<"load">>
    /\ (pc = "returned" /\ run.src_ok /\ FewerThanFour(det.best_ids)) =>
          run.result = Val(1) /\ run.trace = <<"load", "detect">>
    /\ (pc = "returned" /\ InTrace("corners") /\ marker_corners = None) =>
          run.result = Val(1) /\ run.trace = <<"load", "detect", "corners">>

\* C10 witness: four markers were detected but corner resolution failed, and
\* the run returned 1 right after the corner stage
C10_Witness ==
    /\ pc = "returned"
    /\ ids # None
    /\ Len(ids.arr) = 4
    /\ marker_corners = None
    /\ run.trace = <<"load", "detect", "corners">>
    /\ run.result = Val(1)

\* --------------------------------------------------------------- claim C11
\* C11: when the rectangle select_roi_custom returned has zero width or zero
\* height, the run has returned 1 right after the ROI stage: nothing was
\* cropped or written, no matrix was computed and no export was attempted.
C11_EmptyRoiAbortsBeforeCrop ==
    (run.roi # None /\ (run.roi.arr[3] = 0 \/ run.roi.arr[4] = 0)) =>
        /\ pc = "returned"
        /\ run.result = Val(1)
        /\ run.trace = <<"load", "detect", "corners", "rectify", "roi">>
        /\ image = None
        /\ ~run.crop_written
        /\ black_matrix = None
        /\ export = NoExport

\* C11 witness: a rectangle of zero width and non-zero height was selected,
\* with the crop export switched on, and the run returned 1
C11_Witness ==
    /\ pc = "returned"
    /\ run.roi = Arr(<<1, 1, 0, 1>>)
    /\ config.export_crop
    /\ run.result = Val(1)
    /\ image = None

\* --------------------------------------------------------------- claim C12
IsFailureResult(result) ==
    IF "val" \in DOMAIN result THEN result.val # 0 ELSE FALSE

\* C12: when the export path is not writable, run_pipeline comes back to its
\* caller with a non-zero result value (it does not leave by an exception).
C12_UnwritableExportReturnsFailure ==
    export.status = "OSError" =>
        (pc = "returned" /\ IsFailureResult(run.result))

\* --------------------------------------------------------------- claim C17
RECURSIVE MaxCount(_, _)
MaxCount(calls, n) ==
    IF n = 0 THEN 0
    ELSE LET m == MaxCount(calls, n - 1)
         IN  IF calls[n].n > m THEN calls[n].n ELSE m

FirstWith(calls, m) ==
    CHOOSE k \in 1..Len(calls) :
        calls[k].n = m /\ \A j \in 1..(k - 1) : calls[j].n # m

\* C17: when the rotation search has ended, its result is (None, None) if no
\* evaluated orientation returned a marker; otherwise it is the ids and the
\* corners of the earliest evaluated orientation whose marker count is the
\* greatest among the evaluated ones.  The caller receives that result.
C17_ReturnsEarliestBestOrientation ==
    det.done =>
        LET m == MaxCount(det.calls, Len(det.calls))
        IN  /\ IF m = 0
                  THEN det.best_ids = None /\ det.best_corners = None
                  ELSE /\ det.best_ids # None
                       /\ Len(det.best_ids.arr) = m
                       /\ det.best_corners =
                             SeenCorners(det.best_ids.arr,
                                         det.calls[FirstWith(det.calls, m)].angle)
            /\ pc # "detect" => (ids = det.best_ids /\ corners = det.best_corners)

\* C17 witness: four orientations were evaluated, 90 and 180 degrees both
\* returned three markers (the greatest count), and the result is the
\* observation made at 90 degrees
C17_Witness ==
    /\ det.done
    /\ Len(det.calls) = 4
    /\ det.calls[1].n = 1 /\ det.calls[2].n = 3
    /\ det.calls[3].n = 3 /\ det.calls[4].n = 0
    /\ det.best_ids = Arr(<<0, 1, 2>>)
    /\ det.best_corners = SeenCorners(<<0, 1, 2>>, 90)
    /\ det.best_corners # SeenCorners(<<0, 1, 2>>, 180)

\* --------------------------------------------------------------- claim C18
LastIndexOf(idlist, k) ==
    CHOOSE i \in 1..Len(idlist) :
        idlist[i] = k /\ \A j \in (i + 1)..Len(idlist) : idlist[j] # k

\* C18: when find_marker_corners succeeds its output has four points, and
\* point k (k = 0, 1, 2, 3, in this order) is the arithmetic mean of the four
\* corner points of the marker with id k, wherever that marker stands in the
\* detection lists (the last one listed, when the id is listed twice).
C18_OutputIsCentroidsInIdOrder ==
    (pc = "corners_done" /\ marker_corners # None) =>
        /\ Len(marker_corners.arr) = 4
        /\ \A k \in 0..3 :
              LET q == corners.arr[LastIndexOf(ids.arr, k)]
                  m == marker_corners.arr[k + 1]
              IN  /\ 4 * m[1] = q[1][1] + q[2][1] + q[3][1] + q[4][1]
                  /\ 4 * m[2] = q[1][2] + q[2][2] + q[3][2] + q[4][2]

\* C18 witness: the markers were listed in the order 3, 1, 0, 2 and the output
\* lists the centres of markers 0, 1, 2, 3
C18_Witness ==
    /\ pc = "corners_done"
    /\ ids = Arr(<<3, 1, 0, 2>>)
    /\ marker_corners = Arr(<< <<30, 3>>, <<20, 12>>, <<40, 24>>, <<10, 31>> >>)

\* --------------------------------------------------------------- claim C19
\* C19: every cell (r,c) with at least one pixel samples exactly the pixels
\* with x_edges[c] <= x < x_edges[c+1] and y_edges[r] <= y < y_edges[r+1];
\* every sampled pixel lies inside the image, no pixel belongs to two cells,
\* and every pixel of the image belongs to some cell.
C19_CellsPartitionTheImage ==
    pc \in {"grid_matrix", "grid_done"} =>
        LET cells  == (0..(grid.rows - 1)) \X (0..(grid.cols - 1))
            blk(rc) == CellBlock(edges, rc[1], rc[2], image.w, image.h)
            span(rc) == {<<y, x>> : y \in edges.y[rc[1]]..(edges.y[rc[1] + 1] - 1),
                                    x \in edges.x[rc[2]]..(edges.x[rc[2] + 1] - 1)}
            pixels == (0..(image.h - 1)) \X (0..(image.w - 1))
        IN  /\ \A rc \in cells : blk(rc) # {} => blk(rc) = span(rc)
            /\ \A rc \in cells : blk(rc) \subseteq pixels
            /\ \A rc \in cells, sd \in cells : rc # sd => blk(rc) \cap blk(sd) = {}
            /\ UNION {blk(rc) : rc \in cells} = pixels

\* C19 witness: a width of 3 split into 2 columns of unequal width (1 and 2
\* pixels) was sampled
C19_Witness ==
    /\ pc = "grid_matrix"
    /\ image.w = 3 /\ image.h = 1 /\ grid.cols = 2 /\ grid.rows = 1
    /\ CellBlock(edges, 0, 0, image.w, image.h) = {<<0, 0>>}
    /\ CellBlock(edges, 0, 1, image.w, image.h) = {<<0, 1>>, <<0, 2>>}

\* --------------------------------------------------------------- claim C20
\* C20: the sampler always returns a rows x cols matrix of 0/1 (it does not
\* raise), and the entry of every cell whose edges enclose no pixel is 0.
C20_DegenerateCellIsZero ==
    pc \in {"grid_matrix", "grid_done"} =>
        /\ "at" \in DOMAIN black_matrix
        /\ black_matrix.rows = grid.rows /\ black_matrix.cols = grid.cols
        /\ DOMAIN black_matrix.at = 0..(grid.rows - 1)
        /\ \A r \in 0..(grid.rows - 1) :
              /\ DOMAIN black_matrix.at[r] = 0..(grid.cols - 1)
              /\ \A c \in 0..(grid.cols - 1) :
                    /\ black_matrix.at[r][c] \in {0, 1}
                    /\ (edges.x[c + 1] <= edges.x[c] \/ edges.y[r + 1] <= edges.y[r])
                          => black_matrix.at[r][c] = 0

\* C20 witness: a 1x1 black image sampled with 2 rows: row 0 has no pixel and
\* is 0, row 1 holds the pixel and is classified filled
C20_Witness ==
    /\ pc = "grid_matrix"
    /\ image.w = 1 /\ image.h = 1 /\ grid.cols = 1 /\ grid.rows = 2
    /\ edges.y[0] = edges.y[1]
    /\ black_matrix.at[0][0] = 0
    /\ black_matrix.at[1][0] = 1

\* --------------------------------------------------------------- claim C14
\* twice the estimated width and height of the quadrilateral handed in
EstWidth2 ==
    Norm(marker_corners.arr[1], marker_corners.arr[2])
        + Norm(marker_corners.arr[4], marker_corners.arr[3])
EstHeight2 ==
    Norm(marker_corners.arr[1], marker_corners.arr[4])
        + Norm(marker_corners.arr[2], marker_corners.arr[3])

\* r is round(n / d): nearest integer, a tie going to the even neighbour
IsRounded(r, n, d) ==
    LET dist == IF r * d >= n THEN r * d - n ELSE n - r * d
    IN  2 * dist <= d /\ (2 * dist = d => r % 2 = 0)

\* C14: for an explicit output size with a target width of at least 1 and a
\* quadrilateral of positive estimated width and height, the output width is
\* the target width and the output height is
\* max(1, round(target_width / (width_estimate / height_estimate))), whatever
\* height was requested; when the estimates are in the ratio 4:1 the output
\* height is within one pixel of a quarter of the output width.
C14_ExplicitWidthKeepsRatio ==
    (/\ pc = "persp_done" /\ output_size # None
     /\ output_size.arr[1] >= 1 /\ EstWidth2 > 0 /\ EstHeight2 > 0) =>
        /\ "arr" \in DOMAIN corrected_size
        /\ corrected_size.arr[1] = output_size.arr[1]
        /\ \E r \in 0..(output_size.arr[1] * EstHeight2 + 1) :
              /\ IsRounded(r, output_size.arr[1] * EstHeight2, EstWidth2)
              /\ corrected_size.arr[2] = (IF r >= 1 THEN r ELSE 1)
        /\ EstWidth2 = 4 * EstHeight2 =>
              /\ 4 * corrected_size.arr[2] - corrected_size.arr[1] <= 4
              /\ corrected_size.arr[1] - 4 * corrected_size.arr[2] <= 4

\* C14 witness: an 8x2 quadrilateral (4:1) rectified to a requested 10x5
\* comes out 10 wide and 2 high (10/4 = 2.5 rounds to the even 2)
C14_Witness ==
    /\ pc = "persp_done"
    /\ marker_corners = Arr(<< <<0, 0>>, <<8, 0>>, <<8, 2>>, <<0, 2>> >>)
    /\ output_size = Arr(<<10, 5>>)
    /\ corrected_size = Arr(<<10, 2>>)

\* --------------------------------------------------------------- claim C13
NoStageTwice(trace) ==
    \A i \in 1..Len(trace), j \in 1..Len(trace) : i # j => trace[i] # trace[j]

\* C13: main ends only when the configuration GUI is cancelled: after a run
\* that ended in a failure the GUI is presented again, so the program never
\* ends with a failed run as the last thing it did; and within one run no
\* stage of the pipeline runs twice.
C13_FailureReturnsToGui ==
    /\ pc = "exited" =>
          \/ mainloop.results = <<>>
          \/ mainloop.results[Len(mainloop.results)] = Val(0)
    /\ run # None => NoStageTwice(run.trace)

\* --------------------------------------------------------------- claim C16
\* rows, table and CSV file agree
QrInSync ==
    /\ qr_table = TableOf(qr_rows)
    /\ qr_csv = Arr(CsvLines(qr_rows))

\* C16: after every accepted Add and every Delete Selected with a valid
\* cursor row, the table shows the rows of self.rows in list order and the CSV
\* file holds the header followed by one line per row in the same order; an
\* Add with empty input and a Delete without a valid cursor row leave rows,
\* table and CSV file as they were.
C16_RowsTableCsvAgree ==
    [][/\ qr_last'.accepted => QrInSync'
       /\ ~qr_last'.accepted => UNCHANGED <<qr_rows, qr_table, qr_csv>>]_vars

\* --------------------------------------------------------------- claim C21
\* C21: without an explicit output size the output width is
\* max(1, round(mean of the top and bottom edge lengths)) and the output
\* height is max(1, round(mean of the left and right edge lengths)); both
\* are at least 1.
C21_AutoSizeIsRoundedEstimates ==
    (pc = "persp_done" /\ output_size = None) =>
        /\ "arr" \in DOMAIN corrected_size
        /\ \E r \in 0..(EstWidth2 + 1) :
              /\ IsRounded(r, EstWidth2, 2)
              /\ corrected_size.arr[1] = (IF r >= 1 THEN r ELSE 1)
        /\ \E r \in 0..(EstHeight2 + 1) :
              /\ IsRounded(r, EstHeight2, 2)
              /\ corrected_size.arr[2] = (IF r >= 1 THEN r ELSE 1)
        /\ corrected_size.arr[1] >= 1 /\ corrected_size.arr[2] >= 1

\* C21 witness: a quadrilateral with edges 8 (top), 5 (bottom), 5 (left) and
\* 4 (right): the estimates 6.5 and 4.5 round to 6 and 4
C21_Witness ==
    /\ pc = "persp_done"
    /\ output_size = None
    /\ marker_corners = Arr(<< <<0, 0>>, <<8, 0>>, <<8, 4>>, <<3, 4>> >>)
    /\ corrected_size = Arr(<<6, 4>>)

\* --------------------------------------------------------------- claim C22
\* the crop the run took from the rectified image
RunCrop ==
    Crop(run.corrected, run.roi.arr[1], run.roi.arr[2], run.roi.arr[3], run.roi.arr[4])

\* C22: once the matrix has been computed, the image the sampler was handed is
\* still the crop taken from the rectified image, the matrix is the one
\* compute_black_matrix yields on that crop, and the export (when it was
\* written) is the encoding of that matrix, whether or not the marked image
\* was requested.
C22_HighlightLeavesDecodingAlone ==
    black_matrix # None =>
        LET bm == compute_black_matrix(RunCrop, config.grid_cols, config.grid_rows,
                                       config.black_ratio_threshold,
                                       config.gray_threshold)
        IN  /\ image = RunCrop
            /\ black_matrix = bm
            /\ export.written => export.lines = GroupedLines(ColumnLines(bm))

\* C22 witness: the marked image was requested and made, the crop is black
\* and its cell was decoded as filled and exported
C22_Witness ==
    /\ pc = "returned"
    /\ config.export_marked /\ run.marked
    /\ black_matrix # None
    /\ black_matrix.at[0][0] = 1
    /\ export.written

\* --------------------------------------------------------------- claim C26
\* C26: the corners the rotation search returns locate the markers in the
\* input image (the frame correct_perspective works in), whichever
\* orientation they were detected in.
C26_CornersInInputFrame ==
    (det.done /\ det.best_ids # None) =>
        det.best_corners = SeenCorners(det.best_ids.arr, 0)

\* --------------------------------------------------------------- claim C27
\* C27: whenever the run reaches grid sampling, the image handed to the
\* sampler is w_roi wide and h_roi high, both positive, and the rectangle lies
\* inside the rectified image.
C27_CropHasRoiSize ==
    InTrace("sample") =>
        LET roi == run.roi.arr
        IN  /\ roi[3] > 0 /\ roi[4] > 0
            /\ image.w = roi[3] /\ image.h = roi[4]
            /\ roi[1] >= 0 /\ roi[2] >= 0
            /\ roi[1] + roi[3] <= run.corrected.w
            /\ roi[2] + roi[4] <= run.corrected.h

\* --------------------------------------------------------------- claim C23
\* the j-th combination of the fixed order: dictionaries outermost, scales
\* innermost
FlexOrder(j) ==
    <<dict_options[((j - 1) \div Len(scales)) + 1],
      scales[((j - 1) % Len(scales)) + 1]>>

FlexCombos == Len(dict_options) * Len(scales)

\* the number of markers the j-th tried combination yields
TriedCount(j) == FoundAt(scene, flex.tried[j][1], flex.tried[j][2])

\* best_corners and best_ids are what the j-th tried combination detected,
\* every coordinate divided by its scale
ResultIsFrom(j) ==
    LET scale == flex.tried[j][2]
        found == DetectMarkers(scene, flex.tried[j][1], scale)
    IN  /\ flex.best_ids = found.ids
        /\ flex.best_corners # None
        /\ Len(flex.best_corners.arr) = Len(found.corners)
        /\ \A m \in 1..Len(found.corners) : \A p \in 1..4 : \A c \in 1..2 :
              flex.best_corners.arr[m][1][p][c] * scale.num
                 = found.corners[m][1][p][c] * scale.den

\* C23: the combinations are tried in the fixed order; the search returns at
\* the first combination that yields four or more markers, and otherwise
\* after all of them with the earliest combination of the greatest count;
\* each returned coordinate is the detected one divided by the winning scale.
C23_FlexibleSearchContract ==
    pc = "flex" =>
        LET n == Len(flex.tried)
            enough == {j \in 1..n : TriedCount(j) >= 4}
            best == {j \in 1..n : \A i \in 1..n :
                        /\ TriedCount(i) <= TriedCount(j)
                        /\ i < j => TriedCount(i) < TriedCount(j)}
        IN  /\ \A j \in 1..n : flex.tried[j] = FlexOrder(j)
            /\ flex.status = "searching" => enough = {}
            /\ flex.status = "returned" =>
                  /\ enough # {} => enough = {n} /\ ResultIsFrom(n)
                  /\ enough = {} =>
                        /\ n = FlexCombos
                        /\ \A j \in best :
                              IF TriedCount(j) = 0
                              THEN flex.best_corners = None /\ flex.best_ids = None
                              ELSE ResultIsFrom(j)

\* the search returned early with a combination whose scale is not 1.0,
\* after an earlier combination had found fewer markers
C23_Witness ==
    /\ pc = "flex" /\ flex.status = "returned"
    /\ Len(flex.tried) < FlexCombos
    /\ Len(flex.tried) > 1
    /\ \E j \in 1..(Len(flex.tried) - 1) : TriedCount(j) > 0
    /\ LET scale == flex.tried[Len(flex.tried)][2] IN scale.num # scale.den
    /\ Len(flex.best_ids.arr) >= 4

\* --------------------------------------------------------------- claim C24
\* a button-up arrives at position j of the log while a drag is in progress
CompletesDrag(ev, j) ==
    /\ ev[j].event = "EVENT_LBUTTONUP"
    /\ \E i \in 1..(j - 1) :
          /\ ev[i].event = "EVENT_LBUTTONDOWN"
          /\ \A k \in (i + 1)..(j - 1) : ev[k].event # "EVENT_LBUTTONUP"

CompletedDrags(ev) == {j \in 1..Len(ev) : CompletesDrag(ev, j)}

\* C24: whatever the mouse did, a selection ended by Esc or by closing the
\* window returns (0,0,0,0), and run_pipeline aborts and never goes on to
\* the sampling.
C24_CancelReturnsSentinel ==
    (pc \in {"selected", "select_done"} /\ sel.ended \in {"esc", "closed"}) =>
        /\ sel.result = Arr(<<0, 0, 0, 0>>)
        /\ sel.run # "sampling"
        /\ pc = "select_done" => sel.run = "aborted"

\* Esc after a drag of positive width and height was completed, and the run
\* has aborted
C24_Witness ==
    /\ pc = "select_done" /\ sel.ended = "esc" /\ sel.run = "aborted"
    /\ \E j \in CompletedDrags(sel.events) :
          \E i \in 1..(j - 1) :
             /\ sel.events[i].event = "EVENT_LBUTTONDOWN"
             /\ sel.events[i].pt[1] # sel.events[j].pt[1]
             /\ sel.events[i].pt[2] # sel.events[j].pt[2]

\* --------------------------------------------------------------- claim C25
\* the greatest element of a non-empty set of numbers
MaxOf(S) == CHOOSE m \in S : \A n \in S : n <= m

\* the rectangle spanned by points a and b: minimum corner, width, height
Spanned(a, b) ==
    <<IF a[1] <= b[1] THEN a[1] ELSE b[1], IF a[2] <= b[2] THEN a[2] ELSE b[2],
      IF a[1] <= b[1] THEN b[1] - a[1] ELSE a[1] - b[1],
      IF a[2] <= b[2] THEN b[2] - a[2] ELSE a[2] - b[2]>>

\* the rectangle of the most recent completed drag of the log
LastDragRect(ev) ==
    LET done == CompletedDrags(ev) IN
    IF done = {} THEN <<0, 0, 0, 0>>
    ELSE LET j == MaxOf(done)
             i == MaxOf({d \in 1..(j - 1) : ev[d].event = "EVENT_LBUTTONDOWN"})
         IN  Spanned(ev[i].pt, ev[j].pt)

\* C25: a selection ended by Enter or Space returns the rectangle of the
\* most recent completed drag, with (x, y) its minimum corner and width and
\* height >= 0; a drag in progress does not count, and without a completed
\* drag the result is (0,0,0,0).
C25_ConfirmReturnsLastDrag ==
    (pc \in {"selected", "select_done"} /\ sel.ended = "confirm") =>
        /\ sel.result = Arr(LastDragRect(sel.events))
        /\ sel.result.arr[3] >= 0 /\ sel.result.arr[4] >= 0

\* Enter or Space while a second drag is in progress, after a first drag
\* that went up and to the left was completed
C25_Witness ==
    /\ pc = "selected" /\ sel.ended = "confirm" /\ sel.selecting
    /\ CompletedDrags(sel.events) # {}
    /\ sel.result.arr[3] > 0 /\ sel.result.arr[4] > 0
    /\ sel.events[1].event = "EVENT_LBUTTONDOWN"
    /\ sel.result.arr[1] < sel.events[1].pt[1]
    /\ sel.result.arr[2] < sel.events[1].pt[2]

\* --------------------------------------------------------------- claim C28
\* the entries of c at the positions (from 0) that are not in S, in order
RECURSIVE KeepUnselected(_, _)
KeepUnselected(c, S) ==
    IF c = <<>> THEN <<>>
    ELSE LET front == KeepUnselected(SubSeq(c, 1, Len(c) - 1), S)
         IN  IF (Len(c) - 1) \in S THEN front ELSE Append(front, c[Len(c)])

\* C28: after delete_selected_item the cart is the cart from before without
\* the selected entries, every other entry in place and in order.
C28_DeleteRemovesSelection ==
    (pc = "cart" /\ cart_last.op = "delete") =>
        cart = KeepUnselected(cart_last.before, cart_last.selected)

\* --------------------------------------------------------------- claim C29
\* C29: a read loop only ever reads from the connection it was started for:
\* every line in the read log was read by the reader of its connection.
C29_LoopReadsOwnConnection ==
    pc = "serial" =>
        \A k \in 1..Len(read_log) : read_log[k].thread = read_log[k].conn

\* --------------------------------------------------------------- claim C30
\* the texts of the lines of the log that decode to a non-empty text, in
\* the order they were read
RECURSIVE DecodedReads(_)
DecodedReads(log) ==
    IF log = <<>> THEN <<>>
    ELSE LET front == DecodedReads(SubSeq(log, 1, Len(log) - 1))
             decoded == DecodeLine(log[Len(log)].line)
         IN  IF decoded = Raised("UnicodeDecodeError") THEN front
             ELSE IF decoded.val = <<>> THEN front
             ELSE Append(front, decoded.val)

\* C30: the strings handed to add_to_cart are the non-empty decoded lines in
\* the order they were read, each at most once.
C30_HandedInReadOrder ==
    pc = "serial" => IsPrefix(handed, DecodedReads(read_log))

=============================================================================
